---- MODULE Spec2Model ----
(***************************************************************************)
(* Verification model of the SQL evaluation service:                       *)
(*   - the multi-turn session aggregator (MultiTurnSession,                *)
(*     MultiTurnEvaluationManager, the /start_session endpoint),           *)
(*   - the SQL result cache (SQLResultCache, run_sql_query_cached),        *)
(*   - the execution-match checkers (compare_execution_results,            *)
(*     eval_exec_match).                                                   *)
(* Spec      : the session aggregator, one call at a time.                 *)
(* SpecTurns : two add_turn_to_session calls interleaved statement by      *)
(*             statement on the same session.                              *)
(* SpecCache : the result cache and the execution-match check, one call    *)
(*             at a time.                                                  *)
(* SpecRace  : two run_sql_query_cached calls interleaved statement by     *)
(*             statement on the same cache.                                *)
(*   - the clause evaluator (get_scores, the eval_* functions,             *)
(*     Evaluator, ClauseProgressAnalyzer): pure functions, applied to      *)
(*     inputs drawn by the initial state of the Spec* of each.             *)
(***************************************************************************)
EXTENDS Integers, Sequences, FiniteSets, TLC

VARIABLES
    now,        \* the wall clock (datetime.now() / time.time()), in seconds
    session,    \* MultiTurnEvaluationManager.current_session
    saved,      \* the records of multiturn_sessions.json
    response,   \* what the last session operation returned to its caller
    calls,      \* add-turn calls made so far
    thr,        \* SpecTurns: the local state of each add-turn call in flight
    overlapped, \* SpecTurns: two add-turn calls have been in flight together
    cache,      \* SQLResultCache.cache, in the dictionary's insertion order
    ret,        \* what the last cache or execution-match operation returned
    cthr,       \* SpecRace: the local state of each run_sql_query_cached call
    ev          \* the clause evaluator's last call: its inputs and its result

(* every session and cache action leaves ev alone *)
sessVars == <<session, saved, response, calls, thr, overlapped, ev>>

cacheVars == <<cache, ret, cthr, ev>>

vars == <<now, session, saved, response, calls, thr, overlapped, cache, ret, cthr, ev>>

----------------------------------------------------------------------------
(* Bounds of the model. *)

MaxTime == 2
MaxCalls == 2
MaxTurnsInput == 2

(* Program constants. *)

LowerLimit == 1
UpperLimit == 20
DefaultMaxTurns == 5
None == -1

InProgress == "in_progress"
Complete == "complete"

Threads == {1, 2}

----------------------------------------------------------------------------
(* MultiTurnSession *)

NoSession ==
    [session_id |-> None, max_turns |-> 0, turns |-> <<>>, status |-> "none",
     created_at |-> None, completed_at |-> None, session_start_time |-> None,
     session_end_time |-> None, session_duration |-> None]

MultiTurnSession(session_id, max_turns, t) ==
    [session_id |-> session_id, max_turns |-> max_turns, turns |-> <<>>,
     status |-> InProgress, created_at |-> t, completed_at |-> None,
     session_start_time |-> t, session_end_time |-> None,
     session_duration |-> None]

(* a numbering that starts from 0 instead of 1 *)
TurnNumberMutant(s) == Len(s.turns)

(* add_turn, statement by statement *)
TurnNumber(s) == Len(s.turns) + 1

Numbered(s, turn_data, t) ==
    [turn_data EXCEPT !.turn_number = TurnNumber(s), !.timestamp = t]

AppendTurn(s, turn) == [s EXCEPT !.turns = Append(s.turns, turn)]

(* a limit test that is off by one *)
LimitReachedMutant(s) == Len(s.turns) > s.max_turns

LimitReached(s) == Len(s.turns) >= s.max_turns

CompleteIfLimit(s, t) ==
    IF LimitReached(s)
    THEN [s EXCEPT !.status = Complete, !.completed_at = t]
    ELSE s

add_turn(s, turn_data, t) ==
    CompleteIfLimit(AppendTurn(s, Numbered(s, turn_data, t)), t)

----------------------------------------------------------------------------
(* MultiTurnEvaluationManager.add_turn_to_session: the evaluation of a turn *)

EmptyProgress == "empty"
ClauseOutcomes == {"all_one", "some_zero", "all_zero"}

(* What the collaborators answer for one turn: whether the normalized texts *)
(* are equal, what compare_execution_results returns, what                  *)
(* analyze_clause_progress returns, where (if anywhere) the evaluation      *)
(* block raises, and whether the predicted SQL parses.                      *)
Scenarios ==
    { [norm_eq |-> TRUE,  exec |-> TRUE,  clause |-> "all_one",   raise_at |-> "none",   parses |-> TRUE],
      [norm_eq |-> FALSE, exec |-> FALSE, clause |-> "some_zero", raise_at |-> "none",   parses |-> TRUE],
      [norm_eq |-> TRUE,  exec |-> TRUE,  clause |-> "all_one",   raise_at |-> "clause", parses |-> TRUE],
      [norm_eq |-> TRUE,  exec |-> TRUE,  clause |-> "all_zero",  raise_at |-> "none",   parses |-> FALSE] }

InitialTurnData(has_gold) ==
    [has_gold |-> has_gold, exact_match |-> FALSE, execution_match |-> FALSE,
     clause_progress |-> EmptyProgress, parsing_success |-> TRUE,
     turn_number |-> 0, timestamp |-> None]

Evaluated(td, sc) ==
    IF ~td.has_gold THEN td
    ELSE IF sc.raise_at = "exact" THEN td
    ELSE LET a == [td EXCEPT !.exact_match = sc.norm_eq] IN
         IF sc.raise_at = "exec" THEN a
         ELSE LET b == [a EXCEPT !.execution_match = sc.exec] IN
              IF sc.raise_at = "clause" THEN b
              ELSE [b EXCEPT !.clause_progress = sc.clause]

Parsed(td, sc) ==
    IF sc.parses THEN [td EXCEPT !.parsing_success = TRUE]
    ELSE [td EXCEPT !.parsing_success = FALSE, !.exact_match = FALSE,
                    !.execution_match = FALSE]

BuildTurnData(has_gold, sc) == Parsed(Evaluated(InitialTurnData(has_gold), sc), sc)

----------------------------------------------------------------------------
(* MultiTurnEvaluationManager *)

start_new_session(max_turns, t) == MultiTurnSession(t, max_turns, t)

Finished(s, t) ==
    [s EXCEPT !.session_end_time = t,
              !.session_duration = t - s.session_start_time]

IndexOfId(sessions, id) ==
    IF \E i \in 1..Len(sessions) : sessions[i].session_id = id
    THEN CHOOSE i \in 1..Len(sessions) :
            /\ sessions[i].session_id = id
            /\ \A j \in 1..(i - 1) : sessions[j].session_id # id
    ELSE 0

save_session(sessions, s) ==
    LET i == IndexOfId(sessions, s.session_id) IN
    IF i # 0 THEN [sessions EXCEPT ![i] = s] ELSE Append(sessions, s)

CurrentOrNew(s, t) ==
    IF s = NoSession THEN start_new_session(DefaultMaxTurns, t) ELSE s

(* a test that lets every session through to the file *)
SessionCompleteMutant(s) == TRUE

(* if self.current_session.status == "완료" *)
SessionComplete(s) == s.status = Complete

(* add_turn_to_session, one whole call *)
AddTurn(has_gold, sc) ==
    /\ calls < MaxCalls
    /\ LET s1 == add_turn(CurrentOrNew(session, now), BuildTurnData(has_gold, sc), now)
           s2 == IF SessionComplete(s1) THEN Finished(s1, now) ELSE s1
       IN /\ session' = s2
          /\ saved' = IF SessionComplete(s1) THEN save_session(saved, s2) ELSE saved
          /\ response' = [op |-> "add_turn", success |-> TRUE, value |-> Len(s2.turns)]
    /\ calls' = calls + 1
    /\ UNCHANGED <<now, thr, overlapped, cacheVars>>

----------------------------------------------------------------------------
(* app.start_session -> start_multiturn_session -> start_new_session *)

(* a validation without the lower limit *)
ValidMaxTurnsMutant(m) == m <= UpperLimit

ValidMaxTurns(m) == ~(m < LowerLimit \/ m > UpperLimit)

StartInputs == ((-1)..MaxTurnsInput) \cup {UpperLimit + 1}

StartSession(m) ==
    /\ IF ValidMaxTurns(m)
       THEN /\ session' = start_new_session(m, now)
            /\ response' = [op |-> "start_session", success |-> TRUE, value |-> now]
       ELSE /\ session' = session
            /\ response' = [op |-> "start_session", success |-> FALSE, value |-> None]
    /\ UNCHANGED <<now, saved, calls, thr, overlapped, cacheVars>>

Tick ==
    /\ now < MaxTime
    /\ now' = now + 1
    /\ UNCHANGED <<session, saved, response, calls, thr, overlapped, cacheVars>>

----------------------------------------------------------------------------
(* MultiTurnAggregateEvaluationManager._calculate_exact_match_accuracy and  *)
(* _calculate_execution_accuracy: the per-turn counts over the saved        *)
(* sessions.                                                                *)

SessionsWithTurn(sessions, turn_num) ==
    {i \in 1..Len(sessions) : Len(sessions[i].turns) >= turn_num}

ExactMatchStats(sessions, turn_num) ==
    [success |-> Cardinality({i \in SessionsWithTurn(sessions, turn_num) :
                                sessions[i].turns[turn_num].exact_match}),
     total |-> Cardinality(SessionsWithTurn(sessions, turn_num))]

ExecutionStats(sessions, turn_num) ==
    [success |-> Cardinality({i \in SessionsWithTurn(sessions, turn_num) :
                                sessions[i].turns[turn_num].execution_match}),
     total |-> Cardinality(SessionsWithTurn(sessions, turn_num))]

MaxTurnCount(sessions) ==
    IF Len(sessions) = 0 THEN 0
    ELSE CHOOSE n \in {Len(sessions[i].turns) : i \in 1..Len(sessions)} :
            \A i \in 1..Len(sessions) : Len(sessions[i].turns) <= n

----------------------------------------------------------------------------
(* SQL texts: sequences of one-character strings. *)

Texts ==
    { <<"a", " ", "b">>,
      <<"A", " ", " ", "b">>,
      <<"a", "b">>,
      <<"b">> }

(* texts with a quoted string literal: b='A', b='a', B='a', b='a  a',       *)
(* b='a a'                                                                  *)
QuotedTexts ==
    { <<"b", "=", "'", "A", "'">>,
      <<"b", "=", "'", "a", "'">>,
      <<"B", "=", "'", "a", "'">>,
      <<"b", "=", "'", "a", " ", " ", "a", "'">>,
      <<"b", "=", "'", "a", " ", "a", "'">> }

Lower(c) == CASE c = "A" -> "a" [] c = "B" -> "b" [] OTHER -> c

IsSpace(c) == c = " "

LowerAll(s) == [i \in 1..Len(s) |-> Lower(s[i])]

RECURSIVE LStrip(_)
LStrip(s) == IF s # <<>> /\ IsSpace(Head(s)) THEN LStrip(Tail(s)) ELSE s

RECURSIVE RStrip(_)
RStrip(s) ==
    IF s # <<>> /\ IsSpace(s[Len(s)]) THEN RStrip(SubSeq(s, 1, Len(s) - 1)) ELSE s

Strip(s) == RStrip(LStrip(s))

(* str.split(): the maximal runs of non-space characters *)
RECURSIVE SplitWords(_, _, _)
SplitWords(s, cur, acc) ==
    IF s = <<>> THEN (IF cur = <<>> THEN acc ELSE Append(acc, cur))
    ELSE IF IsSpace(Head(s))
         THEN SplitWords(Tail(s), <<>>, IF cur = <<>> THEN acc ELSE Append(acc, cur))
         ELSE SplitWords(Tail(s), Append(cur, Head(s)), acc)

Split(s) == SplitWords(s, <<>>, <<>>)

(* ' '.join(words) *)
RECURSIVE Join(_)
Join(words) ==
    IF words = <<>> THEN <<>>
    ELSE IF Len(words) = 1 THEN words[1]
    ELSE words[1] \o <<" ">> \o Join(Tail(words))

NormalizedSql(sql) == Join(Split(LowerAll(Strip(sql))))

(* _generate_cache_key: the MD5 digest of the normalized text, taken here   *)
(* as the normalized text itself (no two texts of the model collide).       *)
KeyOfText == [sql \in Texts \cup QuotedTexts |-> NormalizedSql(sql)]

generate_cache_key(sql) == KeyOfText[sql]

----------------------------------------------------------------------------
(* Results of run_sql_query_direct *)

Ok(rows) == [success |-> TRUE, result |-> rows, error |-> ""]

Failed(why) == [success |-> FALSE, result |-> <<>>, error |-> why]

NoResult == [success |-> FALSE, result |-> <<>>, error |-> "None"]

CacheError == Failed("cache")

Null == "null"

RowSets == { <<"1", "2">>, <<"2", "1">>, <<"1", Null>>, <<"1">> }

ExecOutcomes == {Ok(rows) : rows \in RowSets} \cup {Failed("rejected")}

CacheOutcomes == {Ok(<<"1">>), Ok(<<"2">>), Failed("rejected")}

Successes(outcomes) == {o \in outcomes : o.success}

----------------------------------------------------------------------------
(* SQLResultCache *)

CacheMaxSize == 2
Ttl == 1

Entry(sql, result, t) ==
    [key |-> generate_cache_key(sql), result |-> result, timestamp |-> t,
     sql |-> sql]   \* sql: the text that was stored, kept for the claims only

IndexOfKey(c, k) ==
    IF \E i \in 1..Len(c) : c[i].key = k
    THEN CHOOSE i \in 1..Len(c) : c[i].key = k
    ELSE 0

RemoveAt(c, i) == SubSeq(c, 1, i - 1) \o SubSeq(c, i + 1, Len(c))

(* an expiry test that is off by one *)
IsExpiredMutant(entry, t) == t - entry.timestamp >= Ttl

IsExpired(entry, t) == t - entry.timestamp > Ttl

cache_get(c, sql, t) ==
    LET i == IndexOfKey(c, generate_cache_key(sql)) IN
    IF i # 0 /\ ~IsExpired(c[i], t)
    THEN [cache |-> c, hit |-> TRUE, result |-> c[i].result]
    ELSE [cache |-> IF i # 0 THEN RemoveAt(c, i) ELSE c,
          hit |-> FALSE, result |-> NoResult]

(* min(self.cache.keys(), key=timestamp): the first of the oldest entries *)
OldestIndex(c) ==
    CHOOSE i \in 1..Len(c) :
        /\ \A j \in 1..Len(c) : c[i].timestamp <= c[j].timestamp
        /\ \A j \in 1..(i - 1) : c[j].timestamp > c[i].timestamp

CacheFull(c) == Len(c) >= CacheMaxSize

Store(c, sql, result, t) ==
    LET i == IndexOfKey(c, generate_cache_key(sql)) IN
    IF i # 0 THEN [c EXCEPT ![i] = Entry(sql, result, t)]
    ELSE Append(c, Entry(sql, result, t))

cache_put(c, sql, result, t) ==
    Store(IF CacheFull(c) THEN RemoveAt(c, OldestIndex(c)) ELSE c, sql, result, t)

(* a cached run that stores whatever the execution answered *)
run_sql_query_cached_mutant(c, sql, outcome, t) ==
    LET g == cache_get(c, sql, t) IN
    IF g.hit
    THEN [cache |-> g.cache, result |-> g.result, executed |-> 0]
    ELSE [cache |-> cache_put(g.cache, sql, outcome, t),
          result |-> outcome, executed |-> 1]

(* run_sql_query_cached; `outcome` is what run_sql_query_direct answers if  *)
(* it is called.                                                            *)
run_sql_query_cached(c, sql, outcome, t) ==
    LET g == cache_get(c, sql, t) IN
    IF g.hit
    THEN [cache |-> g.cache, result |-> g.result, executed |-> 0]
    ELSE [cache |-> IF outcome.success THEN cache_put(g.cache, sql, outcome, t)
                    ELSE g.cache,
          result |-> outcome, executed |-> 1]

----------------------------------------------------------------------------
(* SpecCache: the cache operations, one call at a time *)

NoVerdict == [raised |-> FALSE, value |-> FALSE]

NoRet ==
    [op |-> "none", sql |-> <<>>, executed |-> 0, result |-> NoResult,
     verdict |-> NoVerdict]

Returned(op, sql, executed, result, verdict) ==
    [op |-> op, sql |-> sql, executed |-> executed, result |-> result,
     verdict |-> verdict]

Get(sql) ==
    /\ LET g == cache_get(cache, sql, now) IN
          /\ cache' = g.cache
          /\ ret' = Returned("get", <<>>, 0, g.result, NoVerdict)
    /\ UNCHANGED <<now, cthr, sessVars>>

Put(sql, result) ==
    /\ cache' = cache_put(cache, sql, result, now)
    /\ ret' = Returned("put", <<>>, 0, NoResult, NoVerdict)
    /\ UNCHANGED <<now, cthr, sessVars>>

RunCached(sql, outcome) ==
    /\ LET r == run_sql_query_cached(cache, sql, outcome, now) IN
          /\ cache' = r.cache
          /\ ret' = Returned("run", sql, r.executed, r.result, NoVerdict)
    /\ UNCHANGED <<now, cthr, sessVars>>

----------------------------------------------------------------------------
(* compare_execution_results and eval_exec_match *)

Verdict(b) == [raised |-> FALSE, value |-> b]

Raised == [raised |-> TRUE, value |-> FALSE]

CellRank(c) == CASE c = "1" -> 1 [] c = "2" -> 2 [] OTHER -> 0

(* sorted() compares the cells pairwise; a None cell and a number do not    *)
(* compare (TypeError).                                                     *)
SortRaises(rows) ==
    \E i, j \in 1..Len(rows) : (rows[i] = Null) # (rows[j] = Null)

RECURSIVE Insert(_, _)
Insert(sorted, c) ==
    IF sorted = <<>> THEN <<c>>
    ELSE IF CellRank(c) <= CellRank(Head(sorted)) THEN <<c>> \o sorted
    ELSE <<Head(sorted)>> \o Insert(Tail(sorted), c)

RECURSIVE Sorted(_)
Sorted(rows) ==
    IF rows = <<>> THEN <<>> ELSE Insert(Sorted(Tail(rows)), Head(rows))

compare_rows(p_rows, g_rows) ==
    IF Len(p_rows) # Len(g_rows) THEN Verdict(FALSE)
    ELSE IF SortRaises(p_rows) \/ SortRaises(g_rows) THEN Raised
    ELSE Verdict(Sorted(p_rows) = Sorted(g_rows))

(* a body without the handler *)
CatchAllMutant(v) == v

(* except Exception: return False *)
CatchAll(v) == IF v.raised THEN Verdict(FALSE) ELSE v

compare_execution_results(c, generated_sql, target_sql, o1, o2, t) ==
    LET g == run_sql_query_cached(c, generated_sql, o1, t) IN
    IF ~g.result.success
    THEN [cache |-> g.cache, verdict |-> CatchAll(Verdict(FALSE)),
          executed |-> g.executed, result |-> g.result]
    ELSE LET r == run_sql_query_cached(g.cache, target_sql, o2, t) IN
         IF ~r.result.success
         THEN [cache |-> r.cache, verdict |-> CatchAll(Verdict(FALSE)),
               executed |-> g.executed + r.executed, result |-> r.result]
         ELSE [cache |-> r.cache,
               verdict |-> CatchAll(compare_rows(g.result.result, r.result.result)),
               executed |-> g.executed + r.executed, result |-> r.result]

(* eval_exec_match: no cache; `connected` is whether get_oracle_connection  *)
(* returned a connection.                                                   *)
eval_exec_match(connected, o1, o2) ==
    IF ~connected THEN [verdict |-> CatchAll(Verdict(FALSE)), executed |-> 0, result |-> Failed("connect")]
    ELSE IF ~o1.success THEN [verdict |-> CatchAll(Verdict(FALSE)), executed |-> 1, result |-> o1]
    ELSE IF ~o2.success THEN [verdict |-> CatchAll(Verdict(FALSE)), executed |-> 2, result |-> o2]
    ELSE [verdict |-> CatchAll(compare_rows(o1.result, o2.result)), executed |-> 2, result |-> o2]

ExecTexts == { <<"a", " ", "b">>, <<"b">> }

CompareExec(generated_sql, target_sql, o1, o2) ==
    /\ LET r == compare_execution_results(cache, generated_sql, target_sql, o1, o2, now) IN
          /\ cache' = r.cache
          /\ ret' = Returned("compare", <<>>, r.executed, r.result, r.verdict)
    /\ UNCHANGED <<now, cthr, sessVars>>

EvalExecMatch(connected, o1, o2) ==
    /\ LET r == eval_exec_match(connected, o1, o2) IN
          ret' = Returned("eval", <<>>, r.executed, r.result, r.verdict)
    /\ UNCHANGED <<now, cache, cthr, sessVars>>

----------------------------------------------------------------------------
(* SpecRace: run_sql_query_cached statement by statement, two callers on    *)
(* the same cache without a lock.  An exception in get or put is caught by  *)
(* run_sql_query_cached, which then returns CacheError.                     *)

RaceTexts == { <<"a", " ", "b">>, <<"b">>, <<"a", "b">> }

RaceOutcomes == {Ok(<<"1">>), Failed("rejected")}

NoEntry == [key |-> <<>>, result |-> NoResult, timestamp |-> None, sql |-> <<>>]

IdleCaller ==
    [pc |-> "idle", sql |-> <<>>, entry |-> NoEntry, oldest |-> <<>>,
     exec |-> "none", result |-> NoResult]

Done(c, result) == [c EXCEPT !.pc = "done", !.result = result]

R_Call(i, sql) ==
    /\ cthr[i].pc = "idle"
    /\ cthr' = [cthr EXCEPT ![i] = [IdleCaller EXCEPT !.pc = "get", !.sql = sql]]
    /\ UNCHANGED <<now, cache, ret, sessVars>>

(* get: `if cache_key in self.cache: entry = self.cache[cache_key]` *)
R_GetLookup(i) ==
    /\ cthr[i].pc = "get"
    /\ LET k == IndexOfKey(cache, generate_cache_key(cthr[i].sql)) IN
          cthr' = [cthr EXCEPT ![i] =
                      IF k # 0 THEN [@ EXCEPT !.pc = "get_check", !.entry = cache[k]]
                      ELSE [@ EXCEPT !.pc = "exec"]]
    /\ UNCHANGED <<now, cache, ret, sessVars>>

(* get: `if not self._is_expired(entry): return entry['result']` *)
R_GetCheck(i) ==
    /\ cthr[i].pc = "get_check"
    /\ cthr' = [cthr EXCEPT ![i] =
                  IF ~IsExpired(@.entry, now) THEN Done(@, @.entry.result)
                  ELSE [@ EXCEPT !.pc = "get_del"]]
    /\ UNCHANGED <<now, cache, ret, sessVars>>

(* get: `del self.cache[cache_key]` (KeyError when the key is gone) *)
R_GetDel(i) ==
    /\ cthr[i].pc = "get_del"
    /\ LET k == IndexOfKey(cache, generate_cache_key(cthr[i].sql)) IN
          IF k # 0
          THEN /\ cache' = RemoveAt(cache, k)
               /\ cthr' = [cthr EXCEPT ![i].pc = "exec"]
          ELSE /\ cache' = cache
               /\ cthr' = [cthr EXCEPT ![i] = Done(@, CacheError)]
    /\ UNCHANGED <<now, ret, sessVars>>

(* `result = run_sql_query_direct(sql)`; only a success goes on to put *)
R_Exec(i, o) ==
    /\ cthr[i].pc = "exec"
    /\ cthr' = [cthr EXCEPT ![i] =
                  IF o.success
                  THEN [@ EXCEPT !.pc = "put", !.exec = "ok", !.result = o]
                  ELSE Done([@ EXCEPT !.exec = "failed"], o)]
    /\ UNCHANGED <<now, cache, ret, sessVars>>

(* put: `if len(self.cache) >= self.max_size` *)
R_PutLen(i) ==
    /\ cthr[i].pc = "put"
    /\ cthr' = [cthr EXCEPT ![i].pc = IF CacheFull(cache) THEN "put_min" ELSE "put_store"]
    /\ UNCHANGED <<now, cache, ret, sessVars>>

(* put: `oldest_key = min(...)` (ValueError when the cache is empty) *)
R_PutMin(i) ==
    /\ cthr[i].pc = "put_min"
    /\ cthr' = [cthr EXCEPT ![i] =
                  IF cache = <<>> THEN Done(@, CacheError)
                  ELSE [@ EXCEPT !.pc = "put_del",
                                 !.oldest = cache[OldestIndex(cache)].key]]
    /\ UNCHANGED <<now, cache, ret, sessVars>>

(* put: `del self.cache[oldest_key]` (KeyError when the key is gone) *)
R_PutDel(i) ==
    /\ cthr[i].pc = "put_del"
    /\ LET k == IndexOfKey(cache, cthr[i].oldest) IN
          IF k # 0
          THEN /\ cache' = RemoveAt(cache, k)
               /\ cthr' = [cthr EXCEPT ![i].pc = "put_store"]
          ELSE /\ cache' = cache
               /\ cthr' = [cthr EXCEPT ![i] = Done(@, CacheError)]
    /\ UNCHANGED <<now, ret, sessVars>>

(* put: `self.cache[cache_key] = {...}`, then `return result` *)
R_PutStore(i) ==
    /\ cthr[i].pc = "put_store"
    /\ cache' = Store(cache, cthr[i].sql, cthr[i].result, now)
    /\ cthr' = [cthr EXCEPT ![i] = Done(@, @.result)]
    /\ UNCHANGED <<now, ret, sessVars>>

(* what earlier calls, one at a time, have left in the cache *)
InitialCaches ==
    { <<>>,
      <<Entry(<<"a", " ", "b">>, Ok(<<"1">>), 0)>>,
      <<Entry(<<"b">>, Ok(<<"1">>), 0), Entry(<<"a", "b">>, Ok(<<"1">>), 0)>> }

----------------------------------------------------------------------------
IdleThread == [pc |-> "idle", turn |-> InitialTurnData(FALSE)]

CacheInit ==
    /\ cache = <<>>
    /\ ret = NoRet
    /\ cthr = [i \in Threads |-> IdleCaller]

SessionInit ==
    /\ session = NoSession
    /\ saved = <<>>
    /\ response = [op |-> "none", success |-> TRUE, value |-> 0]
    /\ calls = 0
    /\ thr = [i \in Threads |-> IdleThread]
    /\ overlapped = FALSE

NoEval == [op |-> "none"]

Init ==
    /\ now = 0
    /\ SessionInit
    /\ CacheInit
    /\ ev = NoEval

Next ==
    \/ Tick
    \/ \E m \in StartInputs : StartSession(m)
    \/ \E g \in BOOLEAN, sc \in Scenarios : AddTurn(g, sc)

Spec == Init /\ [][Next]_vars

----------------------------------------------------------------------------
(* SpecTurns: add_turn_to_session statement by statement, two calls on the  *)
(* same session without a lock.                                             *)

Others(i) == Threads \ {i}

T_Begin(i, has_gold, sc) ==
    /\ thr[i].pc = "idle"
    /\ calls < MaxCalls
    /\ calls' = calls + 1
    /\ session' = CurrentOrNew(session, now)
    /\ thr' = [thr EXCEPT ![i] = [pc |-> "built", turn |-> BuildTurnData(has_gold, sc)]]
    /\ overlapped' = (overlapped \/ \E j \in Others(i) : thr[j].pc # "idle")
    /\ UNCHANGED <<now, saved, response, cacheVars>>

T_Number(i) ==
    /\ thr[i].pc = "built"
    /\ thr' = [thr EXCEPT ![i] = [pc |-> "numbered",
                                  turn |-> Numbered(session, thr[i].turn, now)]]
    /\ UNCHANGED <<now, session, saved, response, calls, overlapped, cacheVars>>

T_Append(i) ==
    /\ thr[i].pc = "numbered"
    /\ session' = AppendTurn(session, thr[i].turn)
    /\ thr' = [thr EXCEPT ![i].pc = "appended"]
    /\ UNCHANGED <<now, saved, response, calls, overlapped, cacheVars>>

T_Check(i) ==
    /\ thr[i].pc = "appended"
    /\ session' = CompleteIfLimit(session, now)
    /\ thr' = [thr EXCEPT ![i].pc = "checked"]
    /\ UNCHANGED <<now, saved, response, calls, overlapped, cacheVars>>

T_Finish(i) ==
    /\ thr[i].pc = "checked"
    /\ LET s2 == IF session.status = Complete THEN Finished(session, now) ELSE session
       IN /\ session' = s2
          /\ saved' = IF session.status = Complete THEN save_session(saved, s2) ELSE saved
          /\ response' = [op |-> "add_turn", success |-> TRUE, value |-> Len(s2.turns)]
    /\ thr' = [thr EXCEPT ![i] = IdleThread]
    /\ UNCHANGED <<now, calls, overlapped, cacheVars>>

InitTurns ==
    /\ now = 0
    /\ session \in {NoSession} \cup {start_new_session(m, 0) : m \in LowerLimit..MaxTurnsInput}
    /\ saved = <<>>
    /\ response = [op |-> "none", success |-> TRUE, value |-> 0]
    /\ calls = 0
    /\ thr = [i \in Threads |-> IdleThread]
    /\ overlapped = FALSE
    /\ CacheInit
    /\ ev = NoEval

(* the overlapping calls arrive within one second, evaluation succeeding *)
TurnScenarios == {sc \in Scenarios : sc.parses /\ sc.raise_at = "none" /\ sc.norm_eq}

NextTurns ==
    \/ \E i \in Threads, g \in BOOLEAN, sc \in TurnScenarios : T_Begin(i, g, sc)
    \/ \E i \in Threads : T_Number(i)
    \/ \E i \in Threads : T_Append(i)
    \/ \E i \in Threads : T_Check(i)
    \/ \E i \in Threads : T_Finish(i)

SpecTurns == InitTurns /\ [][NextTurns]_vars

----------------------------------------------------------------------------
NextCache ==
    \/ Tick
    \/ \E sql \in Texts : Get(sql)
    \/ \E sql \in Texts, r \in Successes(CacheOutcomes) : Put(sql, r)
    \/ \E sql \in Texts, o \in CacheOutcomes : RunCached(sql, o)

SpecCache == Init /\ [][NextCache]_vars

(* SpecQuoted: cached runs of texts that hold a string literal *)
NextQuoted ==
    \/ Tick
    \/ \E sql \in QuotedTexts, o \in CacheOutcomes : RunCached(sql, o)

SpecQuoted == Init /\ [][NextQuoted]_vars

NextExec ==
    \/ Tick
    \/ \E p, g \in ExecTexts, o1, o2 \in ExecOutcomes : CompareExec(p, g, o1, o2)
    \/ \E c \in BOOLEAN, o1, o2 \in ExecOutcomes : EvalExecMatch(c, o1, o2)

SpecExec == Init /\ [][NextExec]_vars

InitRace ==
    /\ now = 0
    /\ SessionInit
    /\ cache \in InitialCaches
    /\ ret = NoRet
    /\ cthr = [i \in Threads |-> IdleCaller]
    /\ ev = NoEval

NextRace ==
    \/ Tick
    \/ \E i \in Threads, sql \in RaceTexts : R_Call(i, sql)
    \/ \E i \in Threads : R_GetLookup(i)
    \/ \E i \in Threads : R_GetCheck(i)
    \/ \E i \in Threads : R_GetDel(i)
    \/ \E i \in Threads, o \in RaceOutcomes : R_Exec(i, o)
    \/ \E i \in Threads : R_PutLen(i)
    \/ \E i \in Threads : R_PutMin(i)
    \/ \E i \in Threads : R_PutDel(i)
    \/ \E i \in Threads : R_PutStore(i)

SpecRace == InitRace /\ [][NextRace]_vars

----------------------------------------------------------------------------
(* The clause evaluator.  Its functions are pure; each specification below  *)
(* draws the inputs in its initial state and applies the functions to them. *)
(* None stands for Python's None (the 'not used' score).                    *)

RestInit ==
    /\ now = 0
    /\ SessionInit
    /\ CacheInit

restVars == <<now, session, saved, response, calls, thr, overlapped, cache, ret, cthr>>

MaxCount == 3

(* a ladder without the 'not used' rung *)
get_scores_mutant(count, pred_total, label_total) ==
    IF pred_total # label_total THEN <<0, 0, 0>>
    ELSE IF count = pred_total THEN <<1, 1, 1>>
    ELSE <<0, 0, 0>>

get_scores(count, pred_total, label_total) ==
    IF pred_total = 0 /\ label_total = 0 THEN <<None, None, None>>
    ELSE IF pred_total # label_total THEN <<0, 0, 0>>
    ELSE IF count = pred_total THEN <<1, 1, 1>>
    ELSE <<0, 0, 0>>

calculate_binary_score(label_total, pred_total, cnt) ==
    IF label_total = 0 /\ pred_total = 0 THEN None
    ELSE IF pred_total # label_total THEN 0
    ELSE IF cnt = pred_total THEN 1
    ELSE 0

GetScores ==
    /\ ev.op = "counts"
    /\ ev' = [ev EXCEPT !.op = "get_scores",
                        !.scores = get_scores(ev.count, ev.pred_total, ev.label_total)]
    /\ UNCHANGED restVars

BinaryScore ==
    /\ ev.op = "counts"
    /\ ev' = [ev EXCEPT !.op = "calculate_binary_score",
                        !.scores = <<calculate_binary_score(ev.label_total, ev.pred_total, ev.count)>>]
    /\ UNCHANGED restVars

InitScore ==
    /\ RestInit
    /\ ev \in [op : {"counts"}, count : 0..MaxCount, pred_total : 0..MaxCount,
               label_total : 0..MaxCount, scores : {<<>>}]

NextScore == GetScores \/ BinaryScore

SpecScore == InitScore /\ [][NextScore]_vars

----------------------------------------------------------------------------
(* normalize_oracle_sql_for_comparison.  A text is a sequence of words (the *)
(* maximal runs of non-blank characters); strip() and the collapse of       *)
(* whitespace runs keep the words and put one blank between them.           *)

MaxWords == 5

Words == {"Q", "WHERE", "AND", "ROWNUM<=5", "X=1", ")", ";", "gptify.t"}

SqlTexts == UNION {[1..n -> Words] : n \in 0..MaxWords}

(* sql.upper() *)
UpperWord(w) ==
    CASE w = "gptify.t" -> "GPTIFY.T"
      [] w = "select" -> "SELECT"
      [] w = "from" -> "FROM"
      [] w = "a" -> "A"
      [] w = "t" -> "T"
      [] OTHER -> w

Upper(x) == [i \in 1..Len(x) |-> UpperWord(x[i])]

(* while sql.endswith(';'): sql = sql[:-1].strip() *)
RECURSIVE DropTrailingSemicolons(_)
DropTrailingSemicolons(x) ==
    IF x # <<>> /\ x[Len(x)] = ";" THEN DropTrailingSemicolons(SubSeq(x, 1, Len(x) - 1))
    ELSE x

(* re.sub(r';\s*;+', '', sql): left to right, a semicolon, blanks, and the  *)
(* semicolons that follow it without a blank (here: the next word)          *)
RECURSIVE DropSemicolonRuns(_)
DropSemicolonRuns(x) ==
    IF Len(x) < 2 THEN x
    ELSE IF x[1] = ";" /\ x[2] = ";" THEN DropSemicolonRuns(SubSeq(x, 3, Len(x)))
    ELSE <<x[1]>> \o DropSemicolonRuns(Tail(x))

(* re.sub(r';\s*$', '', sql) *)
DropLastSemicolon(x) ==
    IF x # <<>> /\ x[Len(x)] = ";" THEN SubSeq(x, 1, Len(x) - 1) ELSE x

(* re.sub(r'\bGPTify\.', '', sql, flags=re.IGNORECASE) *)
DropSchemaWord(w) == IF w = "GPTIFY.T" THEN "T" ELSE w

DropSchema(x) == [i \in 1..Len(x) |-> DropSchemaWord(x[i])]

IsRownum(w) == w = "ROWNUM<=5"

(* re.sub(r'\s+WHERE\s+rownum\s*<=\s*\d+\s*$', '', sql): a blank, WHERE and  *)
(* the predicate at the very end of the text                                *)
DropFinalWhereRownum(x) ==
    IF Len(x) >= 3 /\ x[Len(x) - 1] = "WHERE" /\ IsRownum(x[Len(x)])
    THEN SubSeq(x, 1, Len(x) - 2)
    ELSE x

(* re.sub(r'\s+AND\s+rownum\s*<=\s*\d+', '', sql): left to right; the AND   *)
(* has a blank before it, so it is not the first word (first = TRUE)        *)
RECURSIVE DropAndRownum(_, _)
DropAndRownum(x, first) ==
    IF Len(x) < 2 THEN x
    ELSE IF ~first /\ x[1] = "AND" /\ IsRownum(x[2])
         THEN DropAndRownum(SubSeq(x, 3, Len(x)), FALSE)
    ELSE <<x[1]>> \o DropAndRownum(Tail(x), FALSE)

(* re.sub(r'rownum\s*<=\s*\d+\s+AND\s+', '', sql): left to right; the AND   *)
(* has a blank after it, so a word follows it                               *)
RECURSIVE DropRownumAnd(_)
DropRownumAnd(x) ==
    IF Len(x) < 3 THEN x
    ELSE IF IsRownum(x[1]) /\ x[2] = "AND" THEN DropRownumAnd(SubSeq(x, 3, Len(x)))
    ELSE <<x[1]>> \o DropRownumAnd(Tail(x))

normalize_oracle_sql_for_comparison(x) ==
    IF x = <<>> THEN <<>>
    ELSE LET a == DropLastSemicolon(DropSemicolonRuns(DropTrailingSemicolons(Upper(x))))
             b == DropSchema(a)
         IN DropRownumAnd(DropAndRownum(DropFinalWhereRownum(b), TRUE))

Normalize ==
    /\ ev.op = "text"
    /\ ev' = [ev EXCEPT !.op = "normalized",
                        !.out = normalize_oracle_sql_for_comparison(ev.x)]
    /\ UNCHANGED restVars

NormalizeAgain ==
    /\ ev.op = "normalized"
    /\ ev' = [ev EXCEPT !.op = "renormalized",
                        !.out2 = normalize_oracle_sql_for_comparison(ev.out)]
    /\ UNCHANGED restVars

InitNorm ==
    /\ RestInit
    /\ ev \in [op : {"text"}, x : SqlTexts, out : {<<>>}, out2 : {<<>>}]

NextNorm == Normalize \/ NormalizeAgain

SpecNorm == InitNorm /\ [][NextNorm]_vars

----------------------------------------------------------------------------
(* The AST of process_sql.py, as far as the clause evaluator reads it.      *)
(*   col_id     a record (table, name) for '__table.name__'; All for        *)
(*              '__all__'                                                   *)
(*   col_unit   (agg_id, col_id, isDistinct)                                *)
(*   val_unit   (unit_op, col_unit1, col_unit2) with col_unit2 = None       *)
(*   select     (isDistinct, [(agg_id, val_unit), ...])                     *)
(*   condition  [cond, 'and'/'or', cond, ...]: kept as the conditions       *)
(*              (the even positions, conds) and the connectives (the odd    *)
(*              positions, ops); a cond is (not_op, op_id, val_unit, val1,  *)
(*              val2) with val2 = None, and val1 either a literal (val1) or *)
(*              a nested query (sub holds it)                               *)
(*   orderBy    ('asc'/'desc', [val_unit, ...]) for every parsed query, and *)
(*              [] in the empty structure: a sequence holding the pair, or  *)
(*              the empty sequence                                          *)
(*   intersect, union, except: None (the empty sequence) or a nested query  *)

MaxItems == 2
MaxPreds == 2

Col(t, n) == [table |-> t, name |-> n]
All == Col("", "all")
ColA == Col("t", "a")
ColB == Col("t", "b")
ColUA == Col("u", "a")

ColUnit(agg_id, col_id) == [agg_id |-> agg_id, col_id |-> col_id, isDistinct |-> FALSE]
ValUnit(col_id) == [unit_op |-> 0, col_unit1 |-> ColUnit(0, col_id)]
Item(agg_id, col_id) == [agg_id |-> agg_id, val_unit |-> ValUnit(col_id)]
Cond(not_op, op_id, col_id, val1) ==
    [not_op |-> not_op, op_id |-> op_id, val_unit |-> ValUnit(col_id), val1 |-> val1, sub |-> <<>>]
SubCond(op_id, col_id, sql) ==
    [not_op |-> FALSE, op_id |-> op_id, val_unit |-> ValUnit(col_id), val1 |-> "", sub |-> <<sql>>]

NoConds == [conds |-> <<>>, ops |-> <<>>]
OneCond(c) == [conds |-> <<c>>, ops |-> <<>>]
LenCondition(c) == Len(c.conds) + Len(c.ops)

(* parse_order_by without an ORDER BY clause *)
NoOrder == <<[type |-> "asc", val_units |-> <<>>]>>
OrderBy(type, cols) == <<[type |-> type, val_units |-> [i \in 1..Len(cols) |-> ValUnit(cols[i])]]>>

(* SELECT a FROM t *)
Simple ==
    [select |-> [isDistinct |-> FALSE, items |-> <<Item(0, ColA)>>],
     from |-> [table_units |-> <<"t">>, conds |-> NoConds],
     where |-> NoConds, groupBy |-> <<>>, having |-> NoConds, orderBy |-> NoOrder,
     limit |-> None, intersect |-> <<>>, union |-> <<>>, except |-> <<>>]

(* the structure the batch evaluator substitutes for a prediction that does *)
(* not parse                                                                *)
EmptySql ==
    [select |-> [isDistinct |-> FALSE, items |-> <<>>],
     from |-> [table_units |-> <<>>, conds |-> NoConds],
     where |-> NoConds, groupBy |-> <<>>, having |-> NoConds, orderBy |-> <<>>,
     intersect |-> <<>>, union |-> <<>>, except |-> <<>>]

SelItems == {Item(0, ColA), Item(0, ColB), Item(3, ColA)}
SelectLists == UNION {[1..n -> SelItems] : n \in 1..MaxItems}

(* a = '1', a > '1', b = '1' *)
Preds == {Cond(FALSE, 2, ColA, "1"), Cond(FALSE, 3, ColA, "1"), Cond(FALSE, 2, ColB, "1")}
(* a LIKE 'x' *)
Like == Cond(FALSE, 9, ColA, "x")
Conditions ==
    {NoConds} \cup
    UNION {[conds : [1..n -> Preds], ops : [1..(n - 1) -> {"and", "or"}]] : n \in 1..MaxPreds}

(* a IN (SELECT a FROM t) *)
Nested == SubCond(8, ColA, Simple)
(* COUNT over all columns > '1' *)
HavingCount ==
    [not_op |-> FALSE, op_id |-> 3,
     val_unit |-> [unit_op |-> 0, col_unit1 |-> ColUnit(3, All)], val1 |-> "1", sub |-> <<>>]
(* t JOIN u ON t.a = u.a OR t.b = '1' *)
JoinOr == [conds |-> <<Cond(FALSE, 2, ColA, "u.a"), Cond(FALSE, 2, ColB, "1")>>, ops |-> <<"or">>]

Grouped(cols) == [Simple EXCEPT !.groupBy = [i \in 1..Len(cols) |-> ColUnit(0, cols[i])]]

(* SELECT a FROM t WHERE a = '1' OR b = '1' GROUP BY a HAVING COUNT > '1' *)   
(* ORDER BY a DESC UNION SELECT a FROM t                                     *)
Full ==
    [Simple EXCEPT !.where = [conds |-> <<Cond(FALSE, 2, ColA, "1"), Cond(FALSE, 2, ColB, "1")>>,
                              ops |-> <<"or">>],
                   !.groupBy = <<ColUnit(0, ColA)>>,
                   !.having = OneCond(HavingCount),
                   !.orderBy = OrderBy("desc", <<ColA>>),
                   !.union = <<Simple>>]

(* The queries the evaluator is applied to: the simple query varied in one  *)
(* clause at a time, and some queries that use several clauses.             *)
Asts ==
    {[Simple EXCEPT !.select.items = l] : l \in SelectLists}
    \cup {[Simple EXCEPT !.where = w] : w \in Conditions}
    \cup {[Simple EXCEPT !.where = OneCond(Nested)], [Simple EXCEPT !.where = OneCond(Like)]}
    \cup {Grouped(<<ColA>>), Grouped(<<ColUA>>), Grouped(<<ColA, ColB>>), Grouped(<<ColB, ColA>>),
          [Grouped(<<ColA>>) EXCEPT !.having = OneCond(HavingCount)]}
    \cup {[Simple EXCEPT !.orderBy = o] :
             o \in {OrderBy("asc", <<ColA>>), OrderBy("desc", <<ColA>>), OrderBy("asc", <<ColA, ColB>>)}}
    \cup {[Simple EXCEPT !.from.conds = JoinOr]}
    \cup {[Simple EXCEPT !.intersect = <<Simple>>], [Simple EXCEPT !.union = <<Simple>>],
          [Simple EXCEPT !.union = <<Grouped(<<ColA>>)>>], [Simple EXCEPT !.except = <<Simple>>]}
    \cup {Full,
          [Simple EXCEPT !.where = [conds |-> <<Cond(FALSE, 2, ColA, "1"), Cond(FALSE, 2, ColB, "1")>>,
                                    ops |-> <<"or">>],
                         !.groupBy = <<ColUnit(0, ColA)>>,
                         !.orderBy = OrderBy("asc", <<ColA>>)]}

----------------------------------------------------------------------------
(* The clause evaluator of evaluation.py *)

FirstIndex(l, x) == CHOOSE i \in 1..Len(l) : l[i] = x /\ \A j \in 1..(i - 1) : l[j] # x

Elements(l) == {l[i] : i \in 1..Len(l)}

(* a count that forgets how often a unit occurs *)
CountMatchesMutant(pred, copy) == Cardinality(Elements(pred) \cap Elements(copy))

(* for unit in pred: if unit in copy: cnt += 1; copy.remove(unit) *)
RECURSIVE CountMatches(_, _)
CountMatches(pred, copy) ==
    IF pred = <<>> THEN 0
    ELSE IF \E i \in 1..Len(copy) : copy[i] = Head(pred)
         THEN 1 + CountMatches(Tail(pred), RemoveAt(copy, FirstIndex(copy, Head(pred))))
         ELSE CountMatches(Tail(pred), copy)

(* '__t.a__' -> 'a', '__all__' -> '*' *)
extract_column_name_from_id(col_id) == IF col_id = All THEN "*" ELSE col_id.name

normalize_col_unit_semantic(col_unit1, col_unit2) ==
    IF col_unit1.agg_id # col_unit2.agg_id \/ col_unit1.isDistinct # col_unit2.isDistinct THEN FALSE
    ELSE IF col_unit1.col_id = col_unit2.col_id THEN TRUE
    ELSE extract_column_name_from_id(col_unit1.col_id) = extract_column_name_from_id(col_unit2.col_id)

(* the second column units are None on both sides *)
normalize_val_unit_semantic(val_unit1, val_unit2) ==
    IF val_unit1.unit_op # val_unit2.unit_op THEN FALSE
    ELSE normalize_col_unit_semantic(val_unit1.col_unit1, val_unit2.col_unit1)

(* a match on either the aggregate or the value unit *)
SelectMatchMutant(pred_unit, label_unit, with_agg) ==
    \/ pred_unit.agg_id = label_unit.agg_id
    \/ normalize_val_unit_semantic(pred_unit.val_unit, label_unit.val_unit)

SelectMatch(pred_unit, label_unit, with_agg) ==
    /\ with_agg => pred_unit.agg_id = label_unit.agg_id
    /\ normalize_val_unit_semantic(pred_unit.val_unit, label_unit.val_unit)

(* for pred_unit in pred_sel: the first label unit of the copy that matches *)
(* is counted and popped                                                    *)
RECURSIVE CountSemantic(_, _, _)
CountSemantic(pred_sel, copy, with_agg) ==
    IF pred_sel = <<>> THEN 0
    ELSE LET hits == {i \in 1..Len(copy) : SelectMatch(Head(pred_sel), copy[i], with_agg)} IN
         IF hits = {} THEN CountSemantic(Tail(pred_sel), copy, with_agg)
         ELSE LET i == CHOOSE k \in hits : \A j \in hits : k <= j IN
              1 + CountSemantic(Tail(pred_sel), RemoveAt(copy, i), with_agg)

ValUnitsOf(units) == [i \in 1..Len(units) |-> units[i].val_unit]

eval_select(pred, label, schema) ==
    LET pred_sel == pred.select.items
        label_sel == label.select.items
    IN  [label_total |-> Len(label_sel),
         pred_total |-> Len(pred_sel),
         cnt |-> IF schema THEN CountSemantic(pred_sel, label_sel, TRUE)
                 ELSE CountMatches(pred_sel, label_sel),
         cnt_wo |-> IF schema THEN CountSemantic(pred_sel, label_sel, FALSE)
                    ELSE CountMatches(ValUnitsOf(pred_sel), ValUnitsOf(label_sel))]

(* with a schema the value unit of every condition is replaced by the       *)
(* result of comparing it with itself                                       *)
NormalizedConds(conds, schema) ==
    IF schema
    THEN [i \in 1..Len(conds) |->
             [conds[i] EXCEPT !.val_unit = normalize_val_unit_semantic(conds[i].val_unit, conds[i].val_unit)]]
    ELSE conds

eval_where(pred, label, schema) ==
    LET pred_conds == pred.where.conds
        label_conds == label.where.conds
        pred_total == Len(pred_conds)
        label_total == Len(label_conds)
    IN  IF pred_total = 0 /\ label_total = 0
        THEN [label_total |-> 0, pred_total |-> 0, cnt |-> 0, cnt_wo |-> 0]
        ELSE IF pred_total = 0 \/ label_total = 0
        THEN [label_total |-> label_total, pred_total |-> pred_total, cnt |-> 0, cnt_wo |-> 0]
        ELSE LET pn == NormalizedConds(pred_conds, schema)
                 ln == NormalizedConds(label_conds, schema)
             IN  [label_total |-> label_total, pred_total |-> pred_total,
                  cnt |-> CountMatches(pn, ln),
                  cnt_wo |-> CountMatches(ValUnitsOf(pn), ValUnitsOf(ln))]

(* col.split(".")[1] if "." in col else col *)
StripTable(col_id) == IF col_id = All THEN col_id ELSE Col("", col_id.name)

ColsOf(groupBy) == [i \in 1..Len(groupBy) |-> groupBy[i].col_id]

eval_group(pred, label) ==
    LET pred_cols == [i \in 1..Len(pred.groupBy) |-> StripTable(pred.groupBy[i].col_id)]
        label_cols == [i \in 1..Len(label.groupBy) |-> StripTable(label.groupBy[i].col_id)]
    IN  [label_total |-> Len(label_cols), pred_total |-> Len(pred_cols),
         cnt |-> CountMatches(pred_cols, label_cols)]

eval_having(pred, label) ==
    LET pred_total == IF Len(pred.groupBy) > 0 THEN 1 ELSE 0
        label_total == IF Len(label.groupBy) > 0 THEN 1 ELSE 0
    IN  [label_total |-> label_total, pred_total |-> pred_total,
         cnt |-> IF /\ pred_total = 1
                    /\ label_total = 1
                    /\ ColsOf(pred.groupBy) = ColsOf(label.groupBy)
                    /\ pred.having = label.having
                 THEN 1 ELSE 0]

(* An entry of the select mapping is the pair (agg_id, val_unit).  Without  *)
(* a schema the ORDER BY value unit, a triple, is compared with the pair    *)
(* for equality; with a schema normalize_val_unit_semantic reads the pair   *)
(* as a value unit, so that the isDistinct flag of the ORDER BY column      *)
(* (a boolean) meets the third component of the entry's value unit (None).  *)
MatchesSelectEntry(val_unit, entry, schema) ==
    /\ schema
    /\ val_unit.unit_op = entry.agg_id
    /\ val_unit.col_unit1.agg_id = entry.val_unit.unit_op
    /\ val_unit.col_unit1.isDistinct \notin BOOLEAN

normalize_order_by_with_alias(orderby_info, select_mapping, schema) ==
    IF orderby_info = <<>> THEN orderby_info
    ELSE <<[type |-> orderby_info[1].type,
            val_units |->
                [i \in 1..Len(orderby_info[1].val_units) |->
                    LET val_unit == orderby_info[1].val_units[i]
                        hits == {k \in 1..Len(select_mapping) :
                                    MatchesSelectEntry(val_unit, select_mapping[k], schema)}
                    IN  IF hits = {} THEN val_unit
                        ELSE select_mapping[CHOOSE k \in hits : \A j \in hits : k <= j]]]>>

HasOrder(sql) == sql.orderBy # <<>> /\ sql.orderBy[1].val_units # <<>>

eval_order(pred, label, schema) ==
    LET pred_total == IF HasOrder(pred) THEN 1 ELSE 0
        label_total == IF HasOrder(label) THEN 1 ELSE 0
    IN  IF pred_total = 0 /\ label_total = 0
        THEN [label_total |-> 0, pred_total |-> 0, cnt |-> 0]
        ELSE [label_total |-> label_total, pred_total |-> pred_total,
              cnt |-> IF normalize_order_by_with_alias(pred.orderBy, pred.select.items, schema)
                           = normalize_order_by_with_alias(label.orderBy, label.select.items, schema)
                      THEN 1 ELSE 0]

RECURSIVE Concat(_)
Concat(ls) == IF ls = <<>> THEN <<>> ELSE Head(ls) \o Concat(Tail(ls))

SubsOf(conds) == Concat([i \in 1..Len(conds) |-> conds[i].sub])

get_nestedSQL(sql) ==
    SubsOf(sql.from.conds.conds \o sql.where.conds \o sql.having.conds)
        \o sql.intersect \o sql.except \o sql.union

RECURSIVE get_operators(_)
get_operators(sql) ==
    LET nested == get_nestedSQL(sql) IN
    sql.from.conds.ops \o sql.where.ops \o sql.having.ops
        \o Concat([i \in 1..Len(nested) |-> get_operators(nested[i])])

eval_and_or(pred, label) ==
    LET pred_ao == get_operators(pred)
        label_ao == get_operators(label)
    IN  [label_total |-> Len(label_ao), pred_total |-> Len(pred_ao),
         cnt |-> IF pred_ao = label_ao THEN Len(pred_ao) ELSE 0]

(* 'in' is added for every value unit whose unit_op is 0 ('none') *)
get_keywords(sql) ==
    LET ao == sql.from.conds.ops \o sql.where.ops \o sql.having.ops
        cond_units == sql.from.conds.conds \o sql.where.conds \o sql.having.conds
        units == 1..Len(cond_units)
    IN  (IF LenCondition(sql.where) > 0 THEN {"where"} ELSE {})
        \cup (IF Len(sql.groupBy) > 0 THEN {"group"} ELSE {})
        \cup (IF LenCondition(sql.having) > 0 THEN {"having"} ELSE {})
        \cup (IF sql.orderBy # <<>> THEN {sql.orderBy[1].type, "order"} ELSE {})
        \cup (IF sql.except # <<>> THEN {"except"} ELSE {})
        \cup (IF sql.union # <<>> THEN {"union"} ELSE {})
        \cup (IF sql.intersect # <<>> THEN {"intersect"} ELSE {})
        \cup (IF \E i \in 1..Len(ao) : ao[i] = "or" THEN {"or"} ELSE {})
        \cup (IF \E i \in units : cond_units[i].not_op THEN {"not"} ELSE {})
        \cup (IF \E i \in units : cond_units[i].val_unit.unit_op = 0 THEN {"in"} ELSE {})
        \cup (IF \E i \in units : cond_units[i].op_id = 9 THEN {"like"} ELSE {})

eval_keywords(pred, label) ==
    LET pred_keywords == get_keywords(pred)
        label_keywords == get_keywords(label)
    IN  [label_total |-> Cardinality(label_keywords), pred_total |-> Cardinality(pred_keywords),
         cnt |-> Cardinality(pred_keywords \cap label_keywords)]

STANDARD_CLAUSES ==
    {"select", "select(no AGG)", "where", "where(no OP)", "group(no Having)", "group",
     "order", "and/or", "IUEN", "keywords"}

Scored(counts, cnt) ==
    LET scores_result == get_scores(cnt, counts.pred_total, counts.label_total) IN
    IF scores_result[1] # None
    THEN [acc |-> scores_result[1], rec |-> scores_result[2], f1 |-> scores_result[3],
          label_total |-> counts.label_total, pred_total |-> counts.pred_total]
    ELSE [acc |-> None, rec |-> None, f1 |-> None, label_total |-> 0, pred_total |-> 0]

RECURSIVE eval_exact_match(_, _), partial_match(_, _), eval_IUEN(_, _), eval_nested(_, _)

eval_nested(pred, label) ==
    [label_total |-> IF label # <<>> THEN 1 ELSE 0,
     pred_total |-> IF pred # <<>> THEN 1 ELSE 0,
     cnt |-> IF pred # <<>> /\ label # <<>> THEN eval_exact_match(pred[1], label[1]) ELSE 0]

eval_IUEN(pred, label) ==
    LET r1 == eval_nested(pred.intersect, label.intersect)
        r2 == eval_nested(pred.except, label.except)
        r3 == eval_nested(pred.union, label.union)
    IN  [label_total |-> r1.label_total + r2.label_total + r3.label_total,
         pred_total |-> r1.pred_total + r2.pred_total + r3.pred_total,
         cnt |-> r1.cnt + r2.cnt + r3.cnt]

partial_match(pred, label) ==
    LET sel == eval_select(pred, label, FALSE)
        whr == eval_where(pred, label, FALSE)
        grp == eval_group(pred, label)
        hav == eval_having(pred, label)
        ord == eval_order(pred, label, FALSE)
        ao == eval_and_or(pred, label)
        iuen == eval_IUEN(pred, label)
        kw == eval_keywords(pred, label)
    IN  [k \in STANDARD_CLAUSES |->
            CASE k = "select" -> Scored(sel, sel.cnt)
              [] k = "select(no AGG)" -> Scored(sel, sel.cnt_wo)
              [] k = "where" -> Scored(whr, whr.cnt)
              [] k = "where(no OP)" -> Scored(whr, whr.cnt_wo)
              [] k = "group(no Having)" -> Scored(grp, grp.cnt)
              [] k = "group" -> Scored(hav, hav.cnt)
              [] k = "order" -> Scored(ord, ord.cnt)
              [] k = "and/or" -> Scored(ao, ao.cnt)
              [] k = "IUEN" -> Scored(iuen, iuen.cnt)
              [] k = "keywords" -> Scored(kw, kw.cnt)]

(* a verdict that lets a category that is not used count as a mismatch *)
ExactVerdictMutant(partial_scores) ==
    IF \E k \in DOMAIN partial_scores : partial_scores[k].f1 < 1 THEN 0 ELSE 1

ExactVerdict(partial_scores) ==
    IF \E k \in DOMAIN partial_scores :
          partial_scores[k].f1 # None /\ partial_scores[k].f1 < 1
    THEN 0 ELSE 1

eval_exact_match(pred, label) == ExactVerdict(partial_match(pred, label))

(* the scoring part of analyze_clause_progress, after both texts parsed *)
ClauseProgress(generated_parsed, target_parsed) ==
    LET sel == eval_select(generated_parsed, target_parsed, TRUE)
        whr == eval_where(generated_parsed, target_parsed, TRUE)
        grp == eval_group(generated_parsed, target_parsed)
        hav == eval_having(generated_parsed, target_parsed)
        ord == eval_order(generated_parsed, target_parsed, TRUE)
        ao == eval_and_or(generated_parsed, target_parsed)
        iuen == eval_IUEN(generated_parsed, target_parsed)
        kw == eval_keywords(generated_parsed, target_parsed)
        Score(c, cnt) == calculate_binary_score(c.label_total, c.pred_total, cnt)
    IN  [k \in STANDARD_CLAUSES |->
            CASE k = "select" -> Score(sel, sel.cnt)
              [] k = "select(no AGG)" -> Score(sel, sel.cnt_wo)
              [] k = "where" -> Score(whr, whr.cnt)
              [] k = "where(no OP)" -> Score(whr, whr.cnt_wo)
              [] k = "group(no Having)" -> Score(grp, grp.cnt)
              [] k = "group" -> Score(hav, hav.cnt)
              [] k = "order" -> Score(ord, ord.cnt)
              [] k = "and/or" -> Score(ao, ao.cnt)
              [] k = "IUEN" -> Score(iuen, iuen.cnt)
              [] k = "keywords" -> Score(kw, kw.cnt)]

condition_has_or(c) == \E i \in 1..Len(c.ops) : c.ops[i] = "or"
condition_has_like(c) == \E i \in 1..Len(c.conds) : c.conds[i].op_id = 9
condition_has_sql(c) == \E i \in 1..Len(c.conds) : c.conds[i].sub # <<>>

Count(flags) == Cardinality({i \in 1..Len(flags) : flags[i]})

count_comp1(sql) ==
    Count(<<LenCondition(sql.where) > 1, Len(sql.groupBy) > 0, sql.orderBy # <<>>,
            condition_has_or(sql.from.conds), condition_has_like(sql.where)>>)

count_comp2(sql) == Count(<<sql.except # <<>>, sql.union # <<>>, sql.intersect # <<>>>>)

count_others(sql) ==
    Count(<<sql.intersect # <<>>, sql.except # <<>>, sql.union # <<>>,
            condition_has_sql(sql.where), condition_has_sql(sql.having)>>)

(* a ladder whose first rung admits three component-1 features *)
HardnessLevelMutant(count_comp1_, count_others_, count_comp2_) ==
    IF count_comp1_ <= 3 /\ count_others_ = 0 /\ count_comp2_ = 0 THEN "easy" ELSE "extra"

HardnessLevel(count_comp1_, count_others_, count_comp2_) ==
    IF count_comp1_ <= 1 /\ count_others_ = 0 /\ count_comp2_ = 0 THEN "easy"
    ELSE IF \/ (count_others_ <= 2 /\ count_comp1_ <= 1 /\ count_comp2_ = 0)
            \/ (count_comp1_ <= 2 /\ count_others_ < 2 /\ count_comp2_ = 0) THEN "medium"
    ELSE IF \/ (count_others_ <= 2 /\ count_comp1_ <= 2 /\ count_comp2_ <= 1)
            \/ (count_comp1_ <= 3 /\ count_others_ <= 2 /\ count_comp2_ = 0)
            \/ (count_comp1_ <= 1 /\ count_others_ = 0 /\ count_comp2_ <= 1) THEN "hard"
    ELSE "extra"

eval_hardness(sql) == HardnessLevel(count_comp1(sql), count_others(sql), count_comp2(sql))

NoScores == [k \in {} |-> None]

(* evaluate(): the gold query parsed; the prediction parsed, or replaced by *)
(* the empty structure; then eval_hardness(g_sql) and                       *)
(* eval_exact_match(p_sql, g_sql), which keeps the partial scores           *)
Evaluate ==
    /\ ev.op = "asts"
    /\ ev' = [ev EXCEPT !.op = "evaluate",
                        !.hardness = eval_hardness(ev.label),
                        !.partial = partial_match(ev.pred, ev.label),
                        !.exact = eval_exact_match(ev.pred, ev.label)]
    /\ UNCHANGED restVars

(* analyze_clause_progress on two texts that parse *)
AnalyzeParsed ==
    /\ ev.op = "asts"
    /\ ev.pred \in Asts
    /\ ev' = [ev EXCEPT !.op = "analyze_clause_progress",
                        !.progress = ClauseProgress(ev.pred, ev.label)]
    /\ UNCHANGED restVars

InitMatch ==
    /\ RestInit
    /\ ev \in [op : {"asts"}, pred : Asts \cup {EmptySql}, label : Asts, hardness : {""},
               partial : {NoScores}, progress : {NoScores}, exact : {None}]

NextMatch == Evaluate \/ AnalyzeParsed

SpecMatch == InitMatch /\ [][NextMatch]_vars

----------------------------------------------------------------------------
(* SpecSelect: eval_select on two select lists with duplicate and           *)
(* near-duplicate items: a, u.a (the same column name in another table),    *)
(* count(a), b                                                              *)

NearItems == {Item(0, ColA), Item(0, ColUA), Item(3, ColA), Item(0, ColB)}

NearLists == UNION {[1..n -> NearItems] : n \in 1..MaxItems}

WithItems(items) == [Simple EXCEPT !.select.items = items]

NoCounts == [label_total |-> 0, pred_total |-> 0, cnt |-> 0, cnt_wo |-> 0]

EvalSelect ==
    /\ ev.op = "select_lists"
    /\ ev' = [ev EXCEPT !.op = "eval_select",
                        !.counts = eval_select(ev.pred, ev.label, ev.schema)]
    /\ UNCHANGED restVars

InitSelect ==
    /\ RestInit
    /\ ev \in [op : {"select_lists"}, pred : {WithItems(l) : l \in NearLists},
               label : {WithItems(l) : l \in NearLists}, schema : BOOLEAN,
               counts : {NoCounts}]

NextSelect == EvalSelect

SpecSelect == InitSelect /\ [][NextSelect]_vars

----------------------------------------------------------------------------
(* SpecWhere: eval_where on two filters, as partial_match calls it (without *)
(* a schema) and as analyze_clause_progress calls it (with one)             *)

WithWhere(c) == [Simple EXCEPT !.where = c]

EvalWhere ==
    /\ ev.op = "filters"
    /\ ev' = [ev EXCEPT !.op = "eval_where",
                        !.counts = eval_where(ev.pred, ev.label, ev.schema)]
    /\ UNCHANGED restVars

InitWhere ==
    /\ RestInit
    /\ ev \in [op : {"filters"}, pred : {WithWhere(c) : c \in Conditions},
               label : {WithWhere(c) : c \in Conditions}, schema : BOOLEAN,
               counts : {NoCounts}]

NextWhere == EvalWhere

SpecWhere == InitWhere /\ [][NextWhere]_vars

----------------------------------------------------------------------------
(* process_sql.py: tokenize and the parser, for query texts without         *)
(* parentheses, aggregates, aliases, joins, GROUP BY, HAVING, ORDER BY,     *)
(* LIMIT and set operations.  A text is a sequence of words; positions are  *)
(* counted from 1.                                                          *)

MaxRecorded == 1

(* the schema: table t with the columns a and b *)
SchemaTables == <<"t">>
SchemaColumns(table) == IF table = "t" THEN {"a", "b"} ELSE {}

TurnTexts ==
    { <<"SELECT", "A", "FROM", "T">>,
      <<"select", "a", "from", "t", ";">>,
      <<"SELECT", "A", ",", "B", "FROM", "T">>,
      <<"SELECT", "B", ",", "A", "FROM", "T">>,
      <<"SELECT", "T.A", "FROM", "T">>,
      <<"SELECT", "A", "FROM", "T", "WHERE", "A", "=", "1">>,
      <<"SELECT", "A", "FROM", "T", "WHERE", "B", "=", "1">>,
      <<"SELECT", "A", "FROM", "T", "WHERE", "ROWNUM<=5">>,
      <<"SELECT", "Z", "FROM", "T">>,
      <<"SELECT", "A">> }

CLAUSE_KEYWORDS ==
    {"select", "from", "where", "group", "order", "limit", "intersect", "union", "except"}
WHERE_OPS ==
    <<"not", "between", "=", ">", "<", ">=", "<=", "!=", "in", "like", "is", "exists", "is not null">>
COND_OPS == {"and", "or"}

(* word.lower() *)
LowerWord(w) ==
    CASE w = "SELECT" -> "select"
      [] w = "FROM" -> "from"
      [] w = "WHERE" -> "where"
      [] w = "AND" -> "and"
      [] w = "A" -> "a"
      [] w = "B" -> "b"
      [] w = "Z" -> "z"
      [] w = "T" -> "t"
      [] w = "T.A" -> "t.a"
      [] w = "ROWNUM<=5" -> "rownum<=5"
      [] OTHER -> w

(* word_tokenize and the joining of '<' and '=' *)
SplitToken(w) == IF w = "rownum<=5" THEN <<"rownum", "<=", "5">> ELSE <<w>>

tokenize(x) ==
    LET string == DropLastSemicolon(DropSemicolonRuns(DropTrailingSemicolons(x)))
    IN  Concat([i \in 1..Len(string) |-> SplitToken(LowerWord(string[i]))])

IsNumber(tok) == tok \in {"1", "5"}
IsDotted(tok) == tok \in {"t.a", "gptify.t"}
(* tok.split('.') *)
SplitDot(tok) == IF tok = "t.a" THEN <<"t", "a">> ELSE <<"gptify", "t">>

Rownum == Col("", "oracle_rownum")

Parsed_(idx, val) == [ok |-> TRUE, idx |-> idx, val |-> val, operator |-> FALSE]
ParseError == [ok |-> FALSE, idx |-> 0, val |-> <<>>, operator |-> FALSE]
(* "Operator ... is not a valid column name" *)
OperatorError == [ParseError EXCEPT !.operator = TRUE]

TablesWith(tok, tables) == {i \in 1..Len(tables) : tok \in SchemaColumns(tables[i])}
First(S) == CHOOSE i \in S : \A j \in S : i <= j

(* the tables known to the parser: no text here holds an alias *)
tables_with_alias == {SchemaTables[i] : i \in 1..Len(SchemaTables)}

parse_col(toks, start_idx, default_tables) ==
    IF start_idx > Len(toks) THEN ParseError
    ELSE LET tok == toks[start_idx] IN
         IF tok = "*" THEN Parsed_(start_idx + 1, All)
         ELSE IF tok = "rownum" THEN Parsed_(start_idx + 1, Rownum)
         ELSE IF tok \in Elements(WHERE_OPS) THEN OperatorError
         ELSE IF IsNumber(tok) THEN ParseError
         ELSE IF IsDotted(tok)
              THEN LET alias == SplitDot(tok)[1]
                       col == SplitDot(tok)[2]
                   IN  IF alias \in tables_with_alias /\ col \in SchemaColumns(alias)
                       THEN Parsed_(start_idx + 1, Col(alias, col))
                       ELSE ParseError
         ELSE IF default_tables = <<>> THEN ParseError
         ELSE IF TablesWith(tok, default_tables) # {}
              THEN Parsed_(start_idx + 1, Col(default_tables[First(TablesWith(tok, default_tables))], tok))
         ELSE IF TablesWith(tok, SchemaTables) # {}
              THEN Parsed_(start_idx + 1, Col(SchemaTables[First(TablesWith(tok, SchemaTables))], tok))
         ELSE ParseError

(* The value of an intermediate result is bound by a set constructor     *)
(* ({e(v) : v \in {result}}), which computes the result once.               *)
Only(S) == CHOOSE r \in S : TRUE

(* parse_val_unit and parse_col_unit on a column token *)
parse_val_unit(toks, start_idx, default_tables) ==
    Only({IF c.ok THEN Parsed_(c.idx, ValUnit(c.val)) ELSE c :
             c \in {parse_col(toks, start_idx, default_tables)}})

(* the alias after a select item, then the comma *)
AfterItem(toks, i1) ==
    LET i2 == IF i1 <= Len(toks) /\ toks[i1] # "," /\ toks[i1] \notin CLAUSE_KEYWORDS
              THEN (IF toks[i1] = "as" THEN i1 + 2 ELSE i1 + 1)
              ELSE i1
    IN  IF i2 <= Len(toks) /\ toks[i2] = "," THEN i2 + 1 ELSE i2

RECURSIVE SelectLoop(_, _, _, _)
SelectLoop(toks, idx, val_units, default_tables) ==
    IF idx > Len(toks) \/ toks[idx] \in CLAUSE_KEYWORDS THEN Parsed_(idx, val_units)
    ELSE Only({IF ~v.ok THEN ParseError
               ELSE Only({SelectLoop(toks, i3, Append(val_units, [agg_id |-> 0, val_unit |-> v.val]),
                                     default_tables) :
                             i3 \in {AfterItem(toks, v.idx)}}) :
                  v \in {parse_val_unit(toks, idx, default_tables)}})

parse_select(toks, start_idx, default_tables) ==
    IF start_idx > Len(toks) \/ toks[start_idx] # "select" THEN ParseError
    ELSE Only({IF l.ok THEN Parsed_(l.idx, [isDistinct |-> FALSE, items |-> l.val]) ELSE l :
                  l \in {SelectLoop(toks, start_idx + 1, <<>>, default_tables)}})

RECURSIVE FromLoop(_, _, _)
FromLoop(toks, idx, default_tables) ==
    IF idx > Len(toks) THEN Parsed_(idx, default_tables)
    ELSE LET i1 == IF toks[idx] = "join" THEN idx + 1 ELSE idx IN
         IF i1 > Len(toks) \/ toks[i1] \notin tables_with_alias THEN ParseError
         ELSE Only({IF i2 <= Len(toks) /\ toks[i2] \in CLAUSE_KEYWORDS \cup {")", ";"}
                    THEN Parsed_(i2, tables)
                    ELSE FromLoop(toks, i2, tables) :
                       i2 \in {IF i1 + 1 <= Len(toks) /\ toks[i1 + 1] = "as" THEN i1 + 3 ELSE i1 + 1},
                       tables \in {Append(default_tables, toks[i1])}})

parse_from(toks, start_idx) ==
    LET froms == {i \in start_idx..Len(toks) : toks[i] = "from"} IN
    IF froms = {} THEN ParseError ELSE FromLoop(toks, First(froms) + 1, <<>>)

(* a number, or else a column *)
parse_value(toks, start_idx, default_tables) ==
    IF start_idx > Len(toks) THEN ParseError
    ELSE IF IsNumber(toks[start_idx]) THEN Parsed_(start_idx + 1, toks[start_idx])
    ELSE IF toks[start_idx] \in CLAUSE_KEYWORDS \cup COND_OPS \cup {",", ")", ";", "as", "join", "on"}
         THEN ParseError
    ELSE LET stops == {i \in start_idx..Len(toks) :
                          toks[i] \in CLAUSE_KEYWORDS \cup COND_OPS \cup {",", ")", ";", "as", "join", "on"}}
             end_idx == IF stops = {} THEN Len(toks) + 1 ELSE First(stops)
         IN  Only({IF c.ok THEN Parsed_(end_idx, ColUnit(0, c.val)) ELSE ParseError :
                      c \in {parse_col(SubSeq(toks, start_idx, end_idx - 1), 1, default_tables)}})

RECURSIVE CondLoop(_, _, _, _)

(* after the value unit v: NOT, the operator, the value, the connective *)
CondRest(toks, v, c, default_tables) ==
    LET not_op == v.idx <= Len(toks) /\ toks[v.idx] = "not"
        i1 == IF not_op THEN v.idx + 1 ELSE v.idx
    IN  IF i1 > Len(toks) \/ toks[i1] \notin Elements(WHERE_OPS) THEN Parsed_(i1, c)
        ELSE Only({
               IF ~val1.ok THEN ParseError
               ELSE LET cond == [not_op |-> not_op,
                                 op_id |-> First({k \in 1..Len(WHERE_OPS) : WHERE_OPS[k] = toks[i1]}) - 1,
                                 val_unit |-> v.val, val1 |-> val1.val, sub |-> <<>>]
                        i2 == val1.idx
                    IN  Only({
                          IF i2 <= Len(toks) /\ toks[i2] \in CLAUSE_KEYWORDS \cup {")", ";", "join", "on", "as"}
                          THEN Parsed_(i2, c1)
                          ELSE IF i2 <= Len(toks) /\ toks[i2] \in COND_OPS
                          THEN CondLoop(toks, i2 + 1, [c1 EXCEPT !.ops = Append(c1.ops, toks[i2])],
                                        default_tables)
                          ELSE CondLoop(toks, i2, c1, default_tables) :
                             c1 \in {[c EXCEPT !.conds = Append(c.conds, cond)]}}) :
                  val1 \in {parse_value(toks, i1 + 1, default_tables)}})

CondLoop(toks, idx, c, default_tables) ==
    IF idx > Len(toks) THEN Parsed_(idx, c)
    ELSE Only({IF ~v.ok THEN (IF v.operator THEN Parsed_(idx, c) ELSE ParseError)
               ELSE CondRest(toks, v, c, default_tables) :
                  v \in {parse_val_unit(toks, idx, default_tables)}})

parse_condition(toks, start_idx, default_tables) == CondLoop(toks, start_idx, NoConds, default_tables)

parse_where(toks, start_idx, default_tables) ==
    IF start_idx > Len(toks) \/ toks[start_idx] # "where" THEN Parsed_(start_idx, NoConds)
    ELSE parse_condition(toks, start_idx + 1, default_tables)

(* the clauses after FROM *)
SqlAfterFrom(toks, f, sel) ==
    Only({IF ~w.ok THEN ParseError
          ELSE Parsed_(w.idx,
                       [select |-> sel.val,
                        from |-> [table_units |-> f.val, conds |-> NoConds],
                        where |-> w.val, groupBy |-> <<>>, having |-> NoConds,
                        orderBy |-> NoOrder, limit |-> None,
                        intersect |-> <<>>, union |-> <<>>, except |-> <<>>]) :
             w \in {parse_where(toks, f.idx, f.val)}})

parse_sql(toks, start_idx) ==
    IF start_idx > Len(toks) THEN ParseError
    ELSE Only({IF ~f.ok THEN ParseError
               ELSE Only({IF ~sel.ok THEN ParseError ELSE SqlAfterFrom(toks, f, sel) :
                             sel \in {parse_select(toks, start_idx, f.val)}}) :
                  f \in {parse_from(toks, start_idx)}})

get_sql(query) == Only({parse_sql(toks, 1) : toks \in {tokenize(query)}})

----------------------------------------------------------------------------
(* scan_alias and get_tables_with_alias on the token list of a query whose  *)
(* FROM clause names up to MaxTables tables, each with an implicit alias,   *)
(* an AS alias or none, joined by a comma or by JOIN.  The alias dictionary *)
(* is a set of pairs <<alias, table>> with one pair per alias.              *)

MaxTables == 2

AliasSchema == {"t", "u"}

(* the k-th table of a FROM clause and the alias it may be given *)
TableAt(k) == IF k % 2 = 1 THEN "t" ELSE "u"
AliasAt(k) == IF k % 2 = 1 THEN "x" ELSE "y"

TableRefs(k) ==
    {<<TableAt(k)>>, <<TableAt(k), AliasAt(k)>>, <<TableAt(k), "as", AliasAt(k)>>}

Joined(k) ==
    {c \o r \o o : c \in {<<",">>, <<"join">>}, r \in TableRefs(k),
                    o \in {<<>>, <<"on", "t.a", "=", "u.a">>}}

RECURSIVE FromClauses(_)
FromClauses(n) ==
    IF n = 1 THEN TableRefs(1)
    ELSE FromClauses(n - 1) \cup {f \o j : f \in FromClauses(n - 1), j \in Joined(n)}

AliasToks ==
    {<<"select", "a", "from">> \o f \o w :
        f \in FromClauses(MaxTables), w \in {<<>>, <<"where", "a", "=", "1">>}}

(* alias[key] = value *)
SetAlias(alias, key, value) == {p \in alias : p[1] # key} \cup {<<key, value>>}

AliasValues(alias) == {p[2] : p \in alias}

AliasKeys(alias) == {p[1] : p \in alias}

(* 1. the token before and the token after every 'as' *)
RECURSIVE ExplicitAliases(_, _, _)
ExplicitAliases(toks, idx, alias) ==
    IF idx > Len(toks) THEN alias
    ELSE IF toks[idx] = "as" /\ idx > 1 /\ idx + 1 <= Len(toks)
         THEN ExplicitAliases(toks, idx + 1, SetAlias(alias, toks[idx + 1], toks[idx - 1]))
         ELSE ExplicitAliases(toks, idx + 1, alias)

Separators == {"as", ",", ")", ";", "on", "join"}

(* a pair that is taken for a table and its alias: neither token is a       *)
(* clause keyword, the second is no separator, the first is not the value   *)
(* of an alias yet, and the token after the pair is the end, a clause       *)
(* keyword or a delimiter                                                   *)
ImplicitPair(toks, i, alias) ==
    /\ toks[i] \notin CLAUSE_KEYWORDS
    /\ toks[i + 1] \notin CLAUSE_KEYWORDS
    /\ toks[i + 1] \notin Separators
    /\ toks[i] \notin AliasValues(alias)
    /\ \/ i + 2 > Len(toks)
       \/ toks[i + 2] \in CLAUSE_KEYWORDS
       \/ toks[i + 2] \in {",", ")", ";", "on", "join"}

(* 2. the loop over the tokens after a 'from' *)
RECURSIVE ImplicitAliases(_, _, _)
ImplicitAliases(toks, i, alias) ==
    IF i >= Len(toks) THEN alias
    ELSE IF ImplicitPair(toks, i, alias)
         THEN ImplicitAliases(toks, i + 2, SetAlias(alias, toks[i + 1], toks[i]))
         ELSE IF toks[i] \in CLAUSE_KEYWORDS /\ toks[i] # "from" THEN alias
         ELSE ImplicitAliases(toks, i + 1, alias)

RECURSIVE FromScans(_, _, _)
FromScans(toks, idx, alias) ==
    IF idx > Len(toks) THEN alias
    ELSE IF toks[idx] = "from"
         THEN FromScans(toks, idx + 1, ImplicitAliases(toks, idx + 1, alias))
         ELSE FromScans(toks, idx + 1, alias)

scan_alias(toks) == FromScans(toks, 1, ExplicitAliases(toks, 1, {}))

(* the assert of get_tables_with_alias fails when an alias is the name of a *)
(* schema table                                                             *)
get_tables_with_alias(toks) ==
    LET tables == scan_alias(toks) IN
    [raised |-> AliasKeys(tables) \cap AliasSchema # {},
     alias |-> tables,
     tables |-> IF AliasKeys(tables) \cap AliasSchema # {} THEN {}
                ELSE tables \cup {<<key, key>> : key \in AliasSchema}]

GetTablesWithAlias ==
    /\ ev.op = "toks"
    /\ \E r \in {get_tables_with_alias(ev.toks)} :
          ev' = [ev EXCEPT !.op = "get_tables_with_alias", !.raised = r.raised,
                           !.alias = r.alias, !.tables = r.tables]
    /\ UNCHANGED restVars

InitAlias ==
    /\ RestInit
    /\ ev \in [op : {"toks"}, toks : AliasToks, raised : {FALSE}, alias : {{}}, tables : {{}}]

NextAlias == GetTablesWithAlias

SpecAlias == InitAlias /\ [][NextAlias]_vars

----------------------------------------------------------------------------
(* The evaluation of a turn from its two texts, and the batch evaluator     *)

(* an empty target_sql stands for a turn without gold SQL *)
GoldTexts == TurnTexts \cup {<<>>}

analyze_clause_progress(generated_sql, target_sql) ==
    Only({IF generated_parsed.ok /\ target_parsed.ok
          THEN ClauseProgress(generated_parsed.val, target_parsed.val)
          ELSE [clause \in STANDARD_CLAUSES |-> 0] :
             generated_parsed \in {get_sql(normalize_oracle_sql_for_comparison(generated_sql))},
             target_parsed \in {get_sql(normalize_oracle_sql_for_comparison(target_sql))}})

NewTurnData(generated_sql, target_sql) ==
    [generated_sql |-> generated_sql, target_sql |-> target_sql, exact_match |-> FALSE,
     execution_match |-> FALSE, clause_progress |-> NoScores, parsing_success |-> TRUE,
     turn_number |-> 0, timestamp |-> None]

(* if generated_sql and target_sql: ...; exec_match is what                 *)
(* compare_execution_results returns for the two texts                      *)
EvaluatedTurn(td, exec_match) ==
    IF td.generated_sql = <<>> \/ td.target_sql = <<>> THEN td
    ELSE [td EXCEPT !.exact_match = normalize_oracle_sql_for_comparison(td.generated_sql)
                                        = normalize_oracle_sql_for_comparison(td.target_sql),
                    !.execution_match = exec_match,
                    !.clause_progress = analyze_clause_progress(td.generated_sql, td.target_sql)]

(* a parsing step that leaves the verdicts of the evaluation in place *)
ParsedTurnMutant(td) ==
    [td EXCEPT !.parsing_success = get_sql(normalize_oracle_sql_for_comparison(td.generated_sql)).ok]

(* if generated_sql and generated_sql.strip(): try get_sql ... except ... *)
ParsedTurn(td) ==
    IF td.generated_sql = <<>> THEN td
    ELSE IF get_sql(normalize_oracle_sql_for_comparison(td.generated_sql)).ok
    THEN [td EXCEPT !.parsing_success = TRUE]
    ELSE [td EXCEPT !.parsing_success = FALSE, !.exact_match = FALSE, !.execution_match = FALSE]

TurnDataOf(generated_sql, target_sql, exec_match) ==
    ParsedTurn(EvaluatedTurn(NewTurnData(generated_sql, target_sql), exec_match))

(* add_turn_to_session, one whole call on two texts *)
AddTurnToSession(generated_sql, target_sql, exec_match) ==
    /\ ev = NoEval
    /\ Len(session.turns) < MaxRecorded
    /\ \E turn_data \in {TurnDataOf(generated_sql, target_sql, exec_match)} :
          LET s1 == add_turn(CurrentOrNew(session, now), turn_data, now)
              s2 == IF s1.status = Complete THEN Finished(s1, now) ELSE s1
          IN /\ session' = s2
             /\ saved' = IF s1.status = Complete THEN save_session(saved, s2) ELSE saved
             /\ response' = [op |-> "add_turn", success |-> TRUE, value |-> Len(s2.turns)]
    /\ UNCHANGED <<now, calls, thr, overlapped, cacheVars>>

(* evaluate(), the stand-alone batch program, on one pair of texts: the     *)
(* gold text is parsed outside the try block, the predicted text inside     *)
EvaluateTexts(p_str, g_str) ==
    /\ ev = NoEval
    /\ session = NoSession
    /\ \E g \in {get_sql(g_str)}, p \in {get_sql(p_str)} :
          /\ g.ok
          /\ \E g_sql \in {g.val}, p_sql \in {IF p.ok THEN p.val ELSE EmptySql} :
                ev' = [op |-> "evaluate", parsed |-> p.ok, pred |-> p_sql, label |-> g_sql,
                       hardness |-> eval_hardness(g_sql),
                       partial |-> partial_match(p_sql, g_sql),
                       exact |-> eval_exact_match(p_sql, g_sql)]
    /\ UNCHANGED restVars

InitTurnEval ==
    /\ RestInit
    /\ ev = NoEval

NextTurnEval ==
    \/ \E g \in TurnTexts, t \in GoldTexts, e \in BOOLEAN : AddTurnToSession(g, t, e)
    \/ \E p \in TurnTexts, g \in TurnTexts : EvaluateTexts(p, g)

SpecTurnEval == InitTurnEval /\ [][NextTurnEval]_vars

----------------------------------------------------------------------------
(* MultiTurnAggregateEvaluationManager._calculate_clause_progress_by_turn   *)
(* over the sessions of the session file, and the per-turn lines of          *)
(* generate_multiturn_evaluation_report                                     *)

MaxSessions == 2
MaxSessionTurns == 2

(* the turns of the file: a parsed pair without WHERE, GROUP BY or ORDER BY *)
(* on either side, a prediction that does not parse, a turn without gold    *)
(* SQL                                                                      *)
ReportInputs ==
    { <<<<"SELECT", "A", "FROM", "T">>, <<"SELECT", "A", "FROM", "T">>, TRUE>>,
      <<<<"SELECT", "Z", "FROM", "T">>, <<"SELECT", "A", "FROM", "T">>, FALSE>>,
      <<<<"SELECT", "A", "FROM", "T">>, <<>>, FALSE>> }

ReportTurns == {TurnDataOf(i[1], i[2], i[3]) : i \in ReportInputs}

RECURSIVE AddTurns(_, _)
AddTurns(s, turn_datas) ==
    IF turn_datas = <<>> THEN s
    ELSE AddTurns(add_turn(s, Head(turn_datas), 0), Tail(turn_datas))

(* a session that reached its limit with these turns, as save_session       *)
(* writes it                                                                *)
CompletedSession(session_id, turn_datas) ==
    Finished(AddTurns(MultiTurnSession(session_id, Len(turn_datas), 0), turn_datas), 0)

TurnLists == UNION {[1..n -> ReportTurns] : n \in 1..MaxSessionTurns}

(* clause_progress.get(clause, None) *)
ScoreOf(turn, clause) ==
    IF clause \in DOMAIN turn.clause_progress THEN turn.clause_progress[clause] ELSE None

RECURSIVE SumOf(_)
SumOf(scores) == IF scores = <<>> THEN 0 ELSE Head(scores) + SumOf(Tail(scores))

RECURSIVE WithoutNone(_)
WithoutNone(scores) ==
    IF scores = <<>> THEN <<>>
    ELSE IF Head(scores) = None THEN WithoutNone(Tail(scores))
    ELSE <<Head(scores)>> \o WithoutNone(Tail(scores))

(* a mean that is None *)
NoMean == [num |-> None, den |-> 0]

(* sum(scores) / len(scores), kept as a fraction; None for an empty list *)
MeanOrNone(scores) ==
    IF scores = <<>> THEN NoMean ELSE [num |-> SumOf(scores), den |-> Len(scores)]

(* sum() over a list that holds None raises TypeError *)
SumRaises(scores) == \E i \in 1..Len(scores) : scores[i] = None

RECURSIVE ScoresAt(_, _, _)
ScoresAt(sessions, turn_num, clause) ==
    IF sessions = <<>> THEN <<>>
    ELSE (IF Len(Head(sessions).turns) >= turn_num
          THEN <<ScoreOf(Head(sessions).turns[turn_num], clause)>> ELSE <<>>)
         \o ScoresAt(Tail(sessions), turn_num, clause)

RECURSIVE FinalScores(_, _)
FinalScores(sessions, clause) ==
    IF sessions = <<>> THEN <<>>
    ELSE (IF Head(sessions).turns # <<>>
          THEN <<ScoreOf(Head(sessions).turns[Len(Head(sessions).turns)], clause)>> ELSE <<>>)
         \o FinalScores(Tail(sessions), clause)

(* the empty dictionary *)
NoProgress == [by_turn |-> <<>>, final |-> NoScores]

calculate_clause_progress_by_turn(sessions) ==
    IF sessions = <<>> THEN NoProgress
    ELSE IF \A i \in 1..Len(sessions) : sessions[i].turns = <<>> THEN NoProgress
    ELSE IF \E turn_num \in 1..MaxTurnCount(sessions), clause \in STANDARD_CLAUSES :
               SumRaises(ScoresAt(sessions, turn_num, clause))
    THEN NoProgress     \* except Exception: return {}
    ELSE [by_turn |-> [turn_num \in 1..MaxTurnCount(sessions) |->
                          [clause \in STANDARD_CLAUSES |->
                              MeanOrNone(ScoresAt(sessions, turn_num, clause))]],
          final |-> [clause \in STANDARD_CLAUSES |->
                       MeanOrNone(WithoutNone(FinalScores(sessions, clause)))]]

(* the "Turn n" lines of the report: the mean of the clause means that are  *)
(* not None, for each turn that has one                                     *)
ValidMeans(scores) == {clause \in STANDARD_CLAUSES : scores[clause] # NoMean}

RECURSIVE SumNums(_, _)
SumNums(scores, clauses) ==
    IF clauses = {} THEN 0
    ELSE LET c == CHOOSE c \in clauses : TRUE
         IN scores[c].num + SumNums(scores, clauses \ {c})

TurnLines(clause_progress) ==
    [turn_num \in {n \in DOMAIN clause_progress.by_turn :
                      ValidMeans(clause_progress.by_turn[n]) # {}} |->
        LET scores == clause_progress.by_turn[turn_num]
            den == scores[CHOOSE c \in ValidMeans(scores) : TRUE].den
        IN [num |-> SumNums(scores, ValidMeans(scores)),
            den |-> den * Cardinality(ValidMeans(scores))]]

(* generate_multiturn_evaluation_report on the session file *)
GenerateReport ==
    /\ ev = NoEval
    /\ saved # <<>>
    /\ \E clause_progress \in {calculate_clause_progress_by_turn(saved)} :
          ev' = [op |-> "report", clause_progress |-> clause_progress,
                 turn_lines |-> TurnLines(clause_progress)]
    /\ UNCHANGED restVars

InitReport ==
    /\ now = 0
    /\ session = NoSession
    /\ \E n \in 1..MaxSessions : \E f \in [1..n -> TurnLists] :
          saved = [i \in 1..n |-> CompletedSession(i, f[i])]
    /\ response = [op |-> "none", success |-> TRUE, value |-> 0]
    /\ calls = 0
    /\ thr = [i \in Threads |-> IdleThread]
    /\ overlapped = FALSE
    /\ CacheInit
    /\ ev = NoEval

NextReport == GenerateReport

SpecReport == InitReport /\ [][NextReport]_vars

----------------------------------------------------------------------------
(* Claims about the session aggregator *)

HasSession(s) == s # NoSession

(* C1: for a session created with max_turns >= 1, after every add-turn call *)
(* the status is complete exactly when the number of turns has reached      *)
(* max_turns, and an add-turn call on a complete session leaves it          *)
(* complete.                                                                *)
C1_CompleteIffLimit ==
    [][ /\ (HasSession(session') /\ session'.max_turns >= 1) =>
              (session'.status = Complete <=> Len(session'.turns) >= session'.max_turns)
        /\ (calls' # calls /\ session.status = Complete) => session'.status = Complete
      ]_vars

C1_Witness ==
    /\ session.max_turns = 2
    /\ Len(session.turns) = 2
    /\ session.status = Complete
    /\ response.op = "add_turn"

(* C2: an add-turn call on a complete session fails and appends nothing:    *)
(* the turns, the completion timestamp and the duration of the session stay *)
(* as they were, and the turn count never exceeds max_turns.                *)
C2_CompleteRejectsTurns ==
    [][ (calls' # calls /\ session.status = Complete) =>
            /\ ~response'.success
            /\ session'.turns = session.turns
            /\ session'.completed_at = session.completed_at
            /\ session'.session_duration = session.session_duration
            /\ Len(session'.turns) <= session'.max_turns
      ]_vars

(* C7: every add-turn call appends exactly one turn at the end of the turn  *)
(* list, leaves the earlier turns as they were, numbers the new turn with   *)
(* its position and returns that number, with or without gold SQL and       *)
(* whether or not the evaluation of the turn fails.                         *)
C7_AppendsOneTurn ==
    [][ calls' # calls =>
            LET old == session.turns
                new == session'.turns
            IN /\ Len(new) = Len(old) + 1
               /\ SubSeq(new, 1, Len(old)) = old
               /\ new[Len(new)].turn_number = Len(new)
               /\ response'.op = "add_turn"
               /\ response'.value = Len(new)
      ]_vars

C7_Witness ==
    /\ Len(session.turns) = 2
    /\ ~session.turns[1].parsing_success
    /\ ~session.turns[2].has_gold
    /\ session.turns[2].turn_number = 2
    /\ response = [op |-> "add_turn", success |-> TRUE, value |-> 2]

(* C8: a turn added without gold SQL records exact_match, execution_match   *)
(* and clause progress as unavailable (not False), and is not counted as a  *)
(* failed match in the per-turn exact-match and execution-match rates: the  *)
(* turns counted at a turn index are those that have gold SQL.              *)
Unavailable == "unavailable"

GoldBearing(sessions, turn_num) ==
    {i \in SessionsWithTurn(sessions, turn_num) : sessions[i].turns[turn_num].has_gold}

C8_NoGoldIsUnavailable ==
    /\ \A k \in 1..Len(session.turns) :
          ~session.turns[k].has_gold =>
              /\ session.turns[k].exact_match # FALSE
              /\ session.turns[k].execution_match # FALSE
              /\ session.turns[k].clause_progress \in {EmptyProgress, Unavailable}
    /\ \A n \in 1..MaxTurnCount(saved) :
          /\ ExactMatchStats(saved, n).total = Cardinality(GoldBearing(saved, n))
          /\ ExecutionStats(saved, n).total = Cardinality(GoldBearing(saved, n))

(* C9: a start-session request whose max_turns is outside                   *)
(* LowerLimit..UpperLimit fails and leaves the current session as it was;   *)
(* every session that exists, current or saved, has max_turns >= 1.         *)
C9_StartValidated ==
    [][ /\ (response'.op = "start_session" /\ ~response'.success) => session' = session
        /\ (response'.op = "start_session" /\ response'.success) =>
              /\ session'.max_turns \in LowerLimit..UpperLimit
              /\ session'.turns = <<>>
        /\ HasSession(session') => session'.max_turns >= 1
        /\ \A i \in 1..Len(saved') : saved'[i].max_turns >= 1
      ]_vars

C9_Witness ==
    /\ response.op = "start_session"
    /\ ~response.success
    /\ HasSession(session)
    /\ Len(session.turns) = 1

(* C6: two add-turn calls that interleave on one session can leave two      *)
(* turns with the same turn_number; as long as no two calls have been in    *)
(* flight together, the k-th turn carries the number k.                     *)
DuplicateNumbers(s) ==
    \E j, k \in 1..Len(s.turns) :
        j # k /\ s.turns[j].turn_number = s.turns[k].turn_number

C6_SerializedNumbersDistinct ==
    ~overlapped =>
        /\ ~DuplicateNumbers(session)
        /\ \A k \in 1..Len(session.turns) : session.turns[k].turn_number = k

C6_Witness ==
    /\ overlapped
    /\ DuplicateNumbers(session)
    /\ \A i \in Threads : thr[i].pc = "idle"

----------------------------------------------------------------------------
(* Claims about the result cache *)

(* the text with every run of spaces collapsed to one space *)
RECURSIVE CollapseRuns(_)
CollapseRuns(s) ==
    IF Len(s) < 2 THEN s
    ELSE IF IsSpace(s[1]) /\ IsSpace(s[2]) THEN CollapseRuns(Tail(s))
    ELSE <<s[1]>> \o CollapseRuns(Tail(s))

(* equal up to letter case and whitespace runs *)
Equivalent(t, u) == CollapseRuns(LowerAll(t)) = CollapseRuns(LowerAll(u))

EquivalentTexts == {p \in Texts \X Texts : Equivalent(p[1], p[2])}

StoredFor(c, t) == {i \in 1..Len(c) : <<c[i].sql, t>> \in EquivalentTexts}

(* C3: a cached run whose text equals a stored text up to letter case and   *)
(* whitespace runs returns the stored result without executing as long as   *)
(* no more than Ttl seconds have passed since the entry was stored; once    *)
(* more than Ttl seconds have passed it executes the query and the expired  *)
(* entry is gone from the cache.                                            *)
C3_HitWithinTtl ==
    [][ \A t \in {ret'.sql} \cap Texts, o \in CacheOutcomes :
          (ret'.op = "run" /\ RunCached(t, o)) =>
              \A i \in StoredFor(cache, t) :
                  IF now - cache[i].timestamp <= Ttl
                  THEN /\ ret'.executed = 0
                       /\ ret'.result = cache[i].result
                       /\ cache' = cache
                  ELSE /\ ret'.executed = 1
                       /\ ret'.result = o
                       /\ \A j \in 1..Len(cache') : cache'[j] # cache[i]
                       /\ StoredFor(cache', t) # {} <=> o.success
      ]_vars

C3_Witness ==
    /\ ret.op = "run"
    /\ ret.sql = <<"A", " ", " ", "b">>
    /\ ret.executed = 0
    /\ \E i \in 1..Len(cache) :
          /\ cache[i].sql = <<"a", " ", "b">>
          /\ cache[i].result = ret.result
          /\ now - cache[i].timestamp = Ttl

(* C4: the cache never holds more than CacheMaxSize entries, and a put      *)
(* removes an entry only when storing would otherwise exceed CacheMaxSize   *)
(* (the key is new and the cache is full): then exactly the oldest entry    *)
(* goes.                                                                    *)
KeysOf(c) == {c[i].key : i \in 1..Len(c)}

C4_EvictsOnlyWhenExceeding ==
    [][ \A t \in Texts, r \in Successes(CacheOutcomes) :
          (ret'.op = "put" /\ Put(t, r)) =>
              LET k == generate_cache_key(t)
                  exceeds == k \notin KeysOf(cache) /\ Len(cache) + 1 > CacheMaxSize
                  removed == KeysOf(cache) \ KeysOf(cache')
              IN /\ Len(cache') <= CacheMaxSize
                 /\ IF exceeds
                    THEN removed = {cache[OldestIndex(cache)].key}
                    ELSE removed = {}
      ]_vars

(* C5: two callers running the cached-execution path at once may both miss  *)
(* and both execute, but the cache stays within CacheMaxSize with one entry *)
(* per key, a caller returns a failed result only when its own execution    *)
(* failed, and once both have returned successfully for the same key the    *)
(* cache holds an entry for it.                                             *)
C5_RaceIsHarmless ==
    /\ Len(cache) <= CacheMaxSize
    /\ \A j, k \in 1..Len(cache) : cache[j].key = cache[k].key => j = k
    /\ \A i \in Threads :
          (cthr[i].pc = "done" /\ cthr[i].exec # "failed") => cthr[i].result.success
    /\ \A i, j \in Threads :
          ( /\ i # j
            /\ cthr[i].pc = "done" /\ cthr[j].pc = "done"
            /\ cthr[i].result.success /\ cthr[j].result.success
            /\ generate_cache_key(cthr[i].sql) = generate_cache_key(cthr[j].sql) )
          => generate_cache_key(cthr[i].sql) \in KeysOf(cache)

----------------------------------------------------------------------------
(* Claims about the execution-match check *)

Occurrences(rows, c) == Cardinality({i \in 1..Len(rows) : rows[i] = c})

SameRows(a, b) ==
    \A c \in {a[i] : i \in 1..Len(a)} \cup {b[i] : i \in 1..Len(b)} :
        Occurrences(a, c) = Occurrences(b, c)

(* C11: when both executions succeed and return the same rows, in whatever  *)
(* order, the execution-match verdict is True, in compare_execution_results *)
(* and in eval_exec_match.                                                  *)
C11_SameRowsMatch ==
    [][ \A o1, o2 \in Successes(ExecOutcomes) :
          SameRows(o1.result, o2.result) =>
              /\ (ret'.op = "eval" /\ EvalExecMatch(TRUE, o1, o2)) => ret'.verdict.value
              /\ \A p, g \in ExecTexts :
                    (ret'.op = "compare" /\ ret'.executed = 2 /\ CompareExec(p, g, o1, o2))
                        => ret'.verdict.value
      ]_vars

----------------------------------------------------------------------------
(* Claims about the clause evaluator *)

(* C12: the score triple is None when both totals are 0, else 0 when the    *)
(* totals differ, else 1 when the matched count equals the predicted total, *)
(* else 0; accuracy, recall and F1 are equal and in {None, 0, 1}, and the   *)
(* binary clause score of the session follows the same ladder.              *)
Ladder(count, pred_total, label_total) ==
    CASE pred_total = 0 /\ label_total = 0 -> None
      [] pred_total + label_total > 0 /\ pred_total # label_total -> 0
      [] pred_total + label_total > 0 /\ pred_total = label_total /\ count = pred_total -> 1
      [] OTHER -> 0

C12_ScoreLadder ==
    ev.op \in {"get_scores", "calculate_binary_score"} =>
        /\ \A i \in 1..Len(ev.scores) :
              /\ ev.scores[i] = Ladder(ev.count, ev.pred_total, ev.label_total)
              /\ ev.scores[i] \in {None, 0, 1}
        /\ Len(ev.scores) = IF ev.op = "get_scores" THEN 3 ELSE 1

C12_Witness ==
    /\ ev.op = "get_scores"
    /\ ev.pred_total = 2 /\ ev.label_total = 2 /\ ev.count = 1
    /\ ev.scores = <<0, 0, 0>>

(* C18: normalizing a normalized text changes nothing. *)
C18_NormalizeIdempotent ==
    ev.op = "renormalized" => ev.out2 = ev.out

(* the positions of the one ROWNUM predicate of a text that starts with a   *)
(* query head: alone in a WHERE clause at the end of the text or before a   *)
(* closing parenthesis, after an AND, or before an AND                      *)
RownumAt(x) == {i \in 1..Len(x) : IsRownum(x[i])}

Follows(x, i, w) == i + 1 <= Len(x) /\ x[i + 1] = w

AloneInWhere(x, i) ==
    i >= 3 /\ x[i - 1] = "WHERE" /\ (i = Len(x) \/ Follows(x, i, ")"))

AfterAnd(x, i) ==
    i >= 4 /\ x[i - 1] = "AND" /\ x[i - 2] = "X=1" /\ (i = Len(x) \/ Follows(x, i, ")"))

BeforeAnd(x, i) ==
    i >= 3 /\ x[i - 1] = "WHERE" /\ Follows(x, i, "AND") /\ Follows(x, i + 1, "X=1")

(* the same text without the predicate and its WHERE or AND *)
WithoutRownum(x, i) ==
    IF BeforeAnd(x, i) THEN SubSeq(x, 1, i - 1) \o SubSeq(x, i + 2, Len(x))
    ELSE SubSeq(x, 1, i - 2) \o SubSeq(x, i + 1, Len(x))

(* C19: a text with one pagination predicate ROWNUM <= N, alone in a WHERE  *)
(* clause, conjoined with AND before or after another predicate, or right   *)
(* before a closing parenthesis, normalizes to the normal form of the same  *)
(* text without the predicate.                                              *)
C19_RownumRemoved ==
    (ev.op = "normalized" /\ ev.x # <<>> /\ ev.x[1] = "Q") =>
        \A i \in RownumAt(ev.x) :
            (RownumAt(ev.x) = {i} /\ (AloneInWhere(ev.x, i) \/ AfterAnd(ev.x, i) \/ BeforeAnd(ev.x, i)))
                => ev.out = normalize_oracle_sql_for_comparison(WithoutRownum(ev.x, i))

(* C13: eval_exact_match returns 1 exactly when every clause category that  *)
(* is used (its F1 is not None) has F1 = 1, and 0 otherwise; a category     *)
(* that is not used never turns the verdict to 0.                           *)
Used(scores) == {k \in DOMAIN scores : scores[k].f1 # None}

C13_ExactIffAllUsedOne ==
    ev.op = "evaluate" =>
        /\ ev.exact \in {0, 1}
        /\ ev.exact = 1 <=> \A k \in Used(ev.partial) : ev.partial[k].f1 = 1

C13_Witness ==
    /\ ev.op = "evaluate"
    /\ ev.exact = 1
    /\ Used(ev.partial) # STANDARD_CLAUSES
    /\ Used(ev.partial) # {}

(* C14: exact match is reflexive: eval_exact_match(a, a) = 1 for every      *)
(* parsed query a, with duplicate select items, several predicates,         *)
(* GROUP BY and HAVING, ORDER BY and nested set operations.                 *)
C14_ExactMatchReflexive ==
    (ev.op = "evaluate" /\ ev.pred = ev.label) => ev.exact = 1

HasDuplicateItems(sql) ==
    \E i, j \in 1..Len(sql.select.items) : i # j /\ sql.select.items[i] = sql.select.items[j]

C14_Witness ==
    /\ ev.op = "evaluate"
    /\ ev.pred = ev.label
    /\ ev.exact = 1
    /\ HasDuplicateItems(ev.pred)

C14_WitnessFull ==
    /\ ev.op = "evaluate"
    /\ ev.pred = ev.label
    /\ ev.exact = 1
    /\ ev.pred = Full

(* C16: when the predicted and the gold query both have no filter           *)
(* predicate, 'where' and 'where(no OP)' are scored 1 and not excluded;     *)
(* when exactly one of them has none, both categories are scored 0.         *)
NoPredicates(sql) == Len(sql.where.conds) = 0

WhereScores ==
    IF ev.op = "evaluate" THEN <<ev.partial["where"].f1, ev.partial["where(no OP)"].f1>>
    ELSE <<ev.progress["where"], ev.progress["where(no OP)"]>>

C16_EmptyWhereScoresOne ==
    ev.op \in {"evaluate", "analyze_clause_progress"} =>
        /\ (NoPredicates(ev.pred) /\ NoPredicates(ev.label)) => WhereScores = <<1, 1>>
        /\ (NoPredicates(ev.pred) # NoPredicates(ev.label)) => WhereScores = <<0, 0>>

(* C17: a gold query whose only feature is one filter predicate is easy;    *)
(* the same query with a GROUP BY, an ORDER BY and an OR connective added   *)
(* is medium or higher; raising any of the three complexity counts never    *)
(* lowers the level in the order easy < medium < hard < extra.              *)
Rank(level) == CASE level = "easy" -> 0 [] level = "medium" -> 1 [] level = "hard" -> 2
                 [] level = "extra" -> 3

OnePredicate(sql) == \E c \in Preds : sql = [Simple EXCEPT !.where = OneCond(c)]

WithGroupOrderOr(sql) ==
    [sql EXCEPT !.where = [conds |-> Append(sql.where.conds, Cond(FALSE, 2, ColB, "1")),
                           ops |-> Append(sql.where.ops, "or")],
                !.groupBy = <<ColUnit(0, ColA)>>,
                !.orderBy = OrderBy("asc", <<ColA>>)]

Counts(sql) == <<count_comp1(sql), count_others(sql), count_comp2(sql)>>

AtLeast(c, d) == \A i \in 1..3 : c[i] >= d[i]

C17_HardnessMonotone ==
    ev.op = "evaluate" =>
        /\ OnePredicate(ev.label) => ev.hardness = "easy"
        /\ (\E a \in Asts : OnePredicate(a) /\ ev.label = WithGroupOrderOr(a))
               => Rank(ev.hardness) >= Rank("medium")
        /\ \A c \in (0..5) \X (0..5) \X (0..3) : AtLeast(c, Counts(ev.label))
               => Rank(HardnessLevel(c[1], c[2], c[3])) >= Rank(ev.hardness)

C17_Witness ==
    /\ ev.op = "evaluate"
    /\ \E a \in Asts : OnePredicate(a) /\ ev.label = WithGroupOrderOr(a)
    /\ Rank(ev.hardness) >= Rank("medium")

C17_WitnessEasy ==
    /\ ev.op = "evaluate"
    /\ OnePredicate(ev.label)
    /\ ev.hardness = "easy"

(* C15: in a recorded turn that has both predicted and gold SQL,            *)
(* exact_match is True exactly when every entry of the turn's               *)
(* clause_progress that is not excluded (None) equals 1.                    *)
AllClausesAgree(turn) ==
    \A k \in DOMAIN turn.clause_progress :
        turn.clause_progress[k] # None => turn.clause_progress[k] = 1

C15_ExactIffClausesAgree ==
    \A i \in 1..Len(session.turns) :
        LET turn == session.turns[i] IN
        (turn.generated_sql # <<>> /\ turn.target_sql # <<>>)
            => (turn.exact_match <=> AllClausesAgree(turn))

(* C20: a parse failure of the predicted SQL never escapes: the turn is     *)
(* appended with exact_match False, execution_match False and every         *)
(* clause-progress category 0, whatever the execution check answered; in    *)
(* the batch evaluator the empty structure put in place of the prediction   *)
(* gives exact match 0 against every parsed gold query.                     *)
ParseFails(text) == ~get_sql(normalize_oracle_sql_for_comparison(text)).ok

C20_ParseFailureScoresZero ==
    /\ \A i \in 1..Len(session.turns) :
          LET turn == session.turns[i] IN
          ParseFails(turn.generated_sql) =>
              /\ turn.turn_number = i
              /\ ~turn.parsing_success
              /\ ~turn.exact_match
              /\ ~turn.execution_match
              /\ \A k \in DOMAIN turn.clause_progress : turn.clause_progress[k] = 0
              /\ turn.target_sql # <<>> => DOMAIN turn.clause_progress = STANDARD_CLAUSES
    /\ (ev.op = "evaluate" /\ ~ev.parsed) => (ev.pred = EmptySql /\ ev.exact = 0)

C20_Witness ==
    /\ session.turns # <<>>
    /\ ParseFails(session.turns[1].generated_sql)
    /\ session.turns[1].target_sql = session.turns[1].generated_sql
    /\ response = [op |-> "add_turn", success |-> TRUE, value |-> 1]

C20_WitnessBatch ==
    /\ ev.op = "evaluate"
    /\ ~ev.parsed
    /\ ev.exact = 0

----------------------------------------------------------------------------
(* Claims about what the cache holds *)

(* C27: only successful executions are cached: every cache entry holds a    *)
(* result with success = true; a cached run whose execution fails returns   *)
(* the failure and leaves no entry for its text in the cache, and a cached  *)
(* run of the same text right after it executes the query again.            *)
C27_OnlySuccessesCached ==
    /\ [](\A i \in 1..Len(cache) : cache[i].result.success)
    /\ [][ \A t \in Texts, o \in CacheOutcomes :
             (ret'.op = "run" /\ RunCached(t, o)) =>
                 /\ (ret'.executed = 1 /\ ~o.success) =>
                        /\ ret'.result = o
                        /\ generate_cache_key(t) \notin KeysOf(cache')
                        /\ KeysOf(cache') \subseteq KeysOf(cache)
                 /\ (ret.op = "run" /\ ret.sql = t /\ ret.executed = 1 /\ ~ret.result.success)
                        => (ret'.executed = 1 /\ ret'.result = o)
         ]_vars

C27_Witness ==
    /\ ret.op = "run"
    /\ ret.executed = 1
    /\ ~ret.result.success
    /\ Len(cache) = CacheMaxSize
    /\ generate_cache_key(ret.sql) \notin KeysOf(cache)

----------------------------------------------------------------------------
(* C28: execution match is reflexive on successful queries: when the same   *)
(* text is compared with itself and its execution succeeds, or when both    *)
(* executions answer the same successful result, the verdict is True,       *)
(* whatever the rows are (NULL cells among the rows included).              *)
C28_ExecMatchReflexive ==
    [][ /\ \A o \in Successes(ExecOutcomes) :
              (ret'.op = "eval" /\ EvalExecMatch(TRUE, o, o)) => ret'.verdict.value
        /\ \A p \in ExecTexts, o1, o2 \in ExecOutcomes :
              (ret'.op = "compare" /\ CompareExec(p, p, o1, o2) /\ ret'.result.success)
                  => ret'.verdict.value
      ]_vars

----------------------------------------------------------------------------
(* C30: only completed sessions are persisted: every record of the session  *)
(* file has status complete; a step that changes the file writes the        *)
(* current session, which is complete, and leaves the other records as they *)
(* were; start_new_session writes nothing, so a session that is replaced    *)
(* while in progress is dropped without ever being written.                 *)
C30_OnlyCompletePersisted ==
    /\ [](\A i \in 1..Len(saved) : saved[i].status = Complete)
    /\ [][ /\ saved' # saved =>
                 /\ session'.status = Complete
                 /\ \E i \in 1..Len(saved') :
                       /\ saved'[i] = session'
                       /\ \A j \in (1..Len(saved')) \ {i} :
                             j <= Len(saved) /\ saved'[j] = saved[j]
           /\ (session.status = InProgress /\ session' # session /\ session'.turns = <<>>)
                 => saved' = saved
         ]_vars

(* two turns were added, a new session has just replaced the one that held  *)
(* them, and the file is empty                                              *)
C30_Witness ==
    /\ response.op = "start_session"
    /\ response.success
    /\ session.status = InProgress
    /\ session.turns = <<>>
    /\ calls = 2
    /\ saved = <<>>

(* one completed session is on file, a turn of a replaced session is not *)
C30_WitnessSaved ==
    /\ Len(saved) = 1
    /\ Len(saved[1].turns) = 1
    /\ saved[1].session_id = 1
    /\ saved[1].turns[1].timestamp = 1
    /\ calls = 2
    /\ session.status = InProgress
    /\ session.turns = <<>>

----------------------------------------------------------------------------
(* the contents of the quoted literals of a text, quotes included *)
RECURSIVE LiteralChars(_, _)
LiteralChars(s, inside) ==
    IF s = <<>> THEN <<>>
    ELSE IF Head(s) = "'" THEN <<"'">> \o LiteralChars(Tail(s), ~inside)
    ELSE IF inside THEN <<Head(s)>> \o LiteralChars(Tail(s), inside)
    ELSE LiteralChars(Tail(s), inside)

Literals(s) == LiteralChars(s, FALSE)

(* C29: a cached run never answers with a result stored for a text whose    *)
(* quoted literals differ (in letter case or in the whitespace inside the   *)
(* literal) from those of the text that is run: two such texts never have   *)
(* the same cache key.                                                      *)
C29_LiteralsKeepKeysApart ==
    /\ [](\A i \in 1..Len(cache) : \A t \in QuotedTexts :
             Literals(t) # Literals(cache[i].sql) => generate_cache_key(t) # cache[i].key)
    /\ [][ \A t \in QuotedTexts, o \in CacheOutcomes :
             (ret'.op = "run" /\ RunCached(t, o) /\ ret'.executed = 0) =>
                 \E i \in 1..Len(cache) :
                     /\ cache[i].result = ret'.result
                     /\ Literals(cache[i].sql) = Literals(t)
         ]_vars

----------------------------------------------------------------------------
(* Claims about the aggregate report *)

(* the mean of a category at a turn index over the scores that are not None *)
UsedMean(sessions, turn_num, clause) ==
    MeanOrNone(WithoutNone(ScoresAt(sessions, turn_num, clause)))

(* C21: the per-turn clause progress of the report has an entry for every   *)
(* turn index that has turns, and the entry of a category is the mean of    *)
(* that category over the turns at the index whose score is not None (a     *)
(* turn where the category is not used, or a turn without clause progress,  *)
(* is left out); it is None when no turn at the index has a score.          *)
C21_MeansLeaveOutExcluded ==
    ev.op = "report" =>
        \A turn_num \in 1..MaxTurnCount(saved) :
            /\ turn_num \in DOMAIN ev.clause_progress.by_turn
            /\ \A clause \in STANDARD_CLAUSES :
                  ev.clause_progress.by_turn[turn_num][clause] = UsedMean(saved, turn_num, clause)

----------------------------------------------------------------------------
(* Claims about the clause functions *)

(* whether eval_select pairs a predicted item with a gold item *)
Pairs(pred_unit, label_unit, with_agg, schema) ==
    IF schema THEN SelectMatch(pred_unit, label_unit, with_agg)
    ELSE IF with_agg THEN pred_unit = label_unit
    ELSE pred_unit.val_unit = label_unit.val_unit

(* the assignments of predicted items to gold items: no item is used twice  *)
Assignments(pred_sel, label_sel, with_agg, schema) ==
    {m \in SUBSET ((1..Len(pred_sel)) \X (1..Len(label_sel))) :
        /\ \A e \in m : Pairs(pred_sel[e[1]], label_sel[e[2]], with_agg, schema)
        /\ \A e, f \in m : (e[1] = f[1] \/ e[2] = f[2]) => e = f}

(* the size of a maximum assignment *)
Optimum(pred_sel, label_sel, with_agg, schema) ==
    CHOOSE n \in 0..Len(pred_sel) :
        /\ \E m \in Assignments(pred_sel, label_sel, with_agg, schema) : Cardinality(m) = n
        /\ \A m \in Assignments(pred_sel, label_sel, with_agg, schema) : Cardinality(m) <= n

Reorderings(l) ==
    {[i \in 1..Len(l) |-> l[p[i]]] :
        p \in {q \in [1..Len(l) -> 1..Len(l)] : \A i, j \in 1..Len(l) : q[i] = q[j] => i = j}}

Matched(pred_sel, label_sel, schema) ==
    LET r == eval_select(WithItems(pred_sel), WithItems(label_sel), schema)
    IN <<r.cnt, r.cnt_wo>>

(* the matched counts are a maximum assignment and stay the same under      *)
(* every reordering of either list                                          *)
OrderIndependent(pred_sel, label_sel, schema) ==
    /\ Matched(pred_sel, label_sel, schema)
          = <<Optimum(pred_sel, label_sel, TRUE, schema), Optimum(pred_sel, label_sel, FALSE, schema)>>
    /\ \A p \in Reorderings(pred_sel) :
          Matched(p, label_sel, schema) = Matched(pred_sel, label_sel, schema)
    /\ \A l \in Reorderings(label_sel) :
          Matched(pred_sel, l, schema) = Matched(pred_sel, label_sel, schema)

(* C22 as stated: the greedy first-match, remove-on-match select matching   *)
(* is order-dependent: there are predicted and gold select lists with       *)
(* duplicate or near-duplicate items for which the matched count of         *)
(* eval_select is not the size of a maximum assignment, or changes when one *)
(* of the lists is reordered.                                               *)
C22_GreedyOrderDependent ==
    ev.op = "eval_select" =>
        \E pred_sel, label_sel \in NearLists : ~OrderIndependent(pred_sel, label_sel, ev.schema)

(* C22, amended: the matching relation of eval_select is an equivalence     *)
(* (equal items without a schema; equal aggregate, operator and column name *)
(* with one), so for all predicted and gold select lists the matched counts *)
(* of the greedy remove-on-match loop are the sizes of a maximum assignment *)
(* and do not change when either list is reordered.                         *)
C22_GreedyIsOptimal ==
    ev.op = "eval_select" =>
        /\ ev.counts = eval_select(ev.pred, ev.label, ev.schema)
        /\ OrderIndependent(ev.pred.select.items, ev.label.select.items, ev.schema)

(* a and count(a) against count(a) and u.a: every predicted item has two    *)
(* candidates among the gold items in the count without aggregates          *)
C22_Witness ==
    /\ ev.op = "eval_select"
    /\ ev.schema
    /\ ev.pred.select.items = <<Item(0, ColA), Item(3, ColA)>>
    /\ ev.label.select.items = <<Item(3, ColA), Item(0, ColUA)>>
    /\ ev.counts.cnt = 2
    /\ ev.counts.cnt_wo = 2

----------------------------------------------------------------------------
(* how many elements two lists share, each counted as often as it occurs in *)
(* both: the number of predicted elements that find a gold element of their *)
(* own, not yet matched, that is equal to them                              *)
Times(l, x) == Cardinality({i \in 1..Len(l) : l[i] = x})

Least(m, n) == IF m <= n THEN m ELSE n

RECURSIVE SumLeast(_, _, _)
SumLeast(xs, a, b) ==
    IF xs = {} THEN 0
    ELSE LET x == CHOOSE x \in xs : TRUE
         IN Least(Times(a, x), Times(b, x)) + SumLeast(xs \ {x}, a, b)

Shared(a, b) == SumLeast(Elements(a), a, b)

(* C23: when both sides have at least one filter predicate, the 'where'     *)
(* count of eval_where is the number of predicted predicates that have a    *)
(* not-yet-matched gold predicate with the same negation flag, operator,    *)
(* value unit (column) and operand, and the 'where(no OP)' count the number *)
(* that have a not-yet-matched gold predicate with the same value unit,     *)
(* with and without a schema: predicates over different columns never       *)
(* match.                                                                   *)
C23_WhereMatchesSameColumn ==
    (ev.op = "eval_where" /\ ~NoPredicates(ev.pred) /\ ~NoPredicates(ev.label)) =>
        /\ ev.counts.cnt = Shared(ev.pred.where.conds, ev.label.where.conds)
        /\ ev.counts.cnt_wo = Shared(ValUnitsOf(ev.pred.where.conds),
                                     ValUnitsOf(ev.label.where.conds))

----------------------------------------------------------------------------
(* the scores of the two GROUP BY categories in the last call *)
GroupScores ==
    IF ev.op = "evaluate"
    THEN [with_having |-> ev.partial["group"].f1, no_having |-> ev.partial["group(no Having)"].f1]
    ELSE [with_having |-> ev.progress["group"], no_having |-> ev.progress["group(no Having)"]]

(* C24: when both queries have a GROUP BY, the 'group' category scores 1    *)
(* exactly when 'group(no Having)' scores 1 (the same grouping columns by   *)
(* base column name, whatever their order and table qualification) and the *)
(* two HAVING predicate lists are identical; otherwise it scores 0.         *)
C24_GroupRequiresSameHaving ==
    ( /\ ev.op \in {"evaluate", "analyze_clause_progress"}
      /\ ev.pred.groupBy # <<>>
      /\ ev.label.groupBy # <<>> ) =>
        /\ GroupScores.with_having \in {0, 1}
        /\ GroupScores.with_having = 1
              <=> (GroupScores.no_having = 1 /\ ev.pred.having = ev.label.having)

----------------------------------------------------------------------------
(* the component-1 features of a query: a filter with at least one          *)
(* predicate, a GROUP BY, an ORDER BY, each joined table beyond the first,  *)
(* an OR connective, a LIKE predicate                                       *)
HasOr(sql) ==
    condition_has_or(sql.where) \/ condition_has_or(sql.from.conds) \/ condition_has_or(sql.having)

Comp1Features(sql) ==
    Count(<<~NoPredicates(sql), sql.groupBy # <<>>, HasOrder(sql), HasOr(sql),
            condition_has_like(sql.where)>>)
    + (Len(sql.from.table_units) - 1)

(* C25: the component-1 count of eval_hardness for a parsed gold query is   *)
(* the number of component-1 features present in it, and the level is the   *)
(* one the ladder gives for that count; a query without ORDER BY does not   *)
(* have the order-by feature counted, and a query with a single filter      *)
(* predicate has the filter feature counted.                                *)
C25_Comp1CountsFeatures ==
    ev.op = "evaluate" =>
        /\ count_comp1(ev.label) = Comp1Features(ev.label)
        /\ ev.hardness = HardnessLevel(Comp1Features(ev.label), count_others(ev.label),
                                       count_comp2(ev.label))

----------------------------------------------------------------------------
(* Claims about alias discovery *)

(* the tokens of the FROM clause: from the token after 'from' to the token  *)
(* before the next clause keyword                                           *)
FromIndex(toks) == CHOOSE i \in 1..Len(toks) : toks[i] = "from"

InFrom(toks, i) ==
    /\ i > FromIndex(toks)
    /\ \A j \in (FromIndex(toks) + 1)..i : toks[j] \notin CLAUSE_KEYWORDS

(* C26: alias discovery records alias -> table only for an adjacent pair    *)
(* of the FROM clause whose first token is a table and whose following      *)
(* token is the end, a clause keyword or a separator; a JOIN keyword, a     *)
(* comma or an operator followed by a table name is never recorded, so no   *)
(* recorded alias is the name of a schema table and the collision check     *)
(* passes for a FROM clause over schema tables.                             *)
C26_AliasOnlyAfterTable ==
    ev.op = "get_tables_with_alias" =>
        /\ \A p \in ev.alias :
              /\ p[2] \in AliasSchema
              /\ p[1] \notin AliasSchema
              /\ \E i \in 1..(Len(ev.toks) - 1) :
                    /\ InFrom(ev.toks, i + 1)
                    /\ ev.toks[i] = p[2]
                    /\ ev.toks[i + 1] = p[1] \/ (ev.toks[i + 1] = "as" /\ i + 2 <= Len(ev.toks)
                                                  /\ ev.toks[i + 2] = p[1])
        /\ ~ev.raised

====
